---- MODULE Spec2Model ----
(***************************************************************************)
(* Model of the agent messaging substrate of nexus_mttr:                   *)
(*   - MessageBus            (src/messaging/message_bus.py)                *)
(*   - EnhancedAgentRegistry (src/messaging/message_bus.py)                *)
(*   - AgentMessage          (src/models/__init__.py)                      *)
(*   - MCPMessage, BaseAgent (src/agents/base_agent.py)                    *)
(* Every public operation of the bus and of the registry is one action.    *)
(* The coroutines of the bus contain no suspension point other than the    *)
(* await of a synchronous handler.  In send_message the handler ends       *)
(* without suspending, and its outcome, "returned" or "raised", is an      *)
(* input of the action; send_begin and handler_resume are the same call    *)
(* with a handler that suspends.                                           *)
(***************************************************************************)
EXTENDS Integers, Sequences, FiniteSets, TLC

(***************************************************************************)
(* Bounds of the model.                                                    *)
(***************************************************************************)
\* Capacity of a mailbox: the max_queue_size given to MessageBus().
MaxQueueSize == 2
\* Number of send_message calls explored (caps stats.messages_sent).
MaxSends == 3
\* Number of send_message calls explored when synchronous handlers are among
\* the recipients.
MaxHandlerSends == 2
\* Number of send_message calls explored when broadcasts are among them.
MaxBroadcastSends == 2
\* Number of send_message calls explored next to the registry's operations.
MaxRegistrySends == 1
\* Largest limit passed to get_messages.
MaxLimit == 2
\* MessageBus.message_ttl, in seconds.
MessageTtl == 2
\* Number of calls of BaseAgent.start explored.
MaxStarts == 2
\* Number of calls of BaseAgent.stop that may be suspended in cleanup() at
\* the same time.
MaxStops == 1
\* Number of messages given to the agent.
MaxReceived == 2
\* Number of send_message calls explored next to a running agent.
MaxDeliverySends == 2
\* Number of messages given to an agent that is started more than once.
MaxLifecycleReceived == 1
\* The clock stops at this time, in seconds.
MaxTime == 90
\* Number of messages given to an agent that may leave them unread.
MaxMailboxReceived == 3
\* Number of uuids drawn while messages are built on their own.
MaxMessages == 3
\* Number of send_message calls explored when synchronous handlers suspend.
MaxSuspendSends == 1

(***************************************************************************)
(* Durations of the program, in seconds.                                   *)
(***************************************************************************)
\* asyncio.sleep(30) in _heartbeat_loop
HeartbeatSleep == 30
\* EnhancedAgentRegistry.heartbeat_timeout = 60
HeartbeatTimeout == 60

(***************************************************************************)
(* Input sets.                                                             *)
(***************************************************************************)
AgentIds == {"a1", "a2"}
BroadcastIds == {"broadcast", "*"}
\* Two members of MessageType.
MessageTypes == {"log_analysis", "agent_status"}
\* An optional value: None is the empty tuple, a present value x is <<x>>.
None == <<>>
Some(x) == <<x>>
\* A payload: a dict, as its set of (key, value) items.
EmptyDict == {}
\* What a sender puts in an envelope besides recipient and kind; age is the
\* time between the construction of the envelope and its send.
Envelope1 ==
    [sender_id |-> "s1", data |-> {<<"entries", "3">>}, correlation_id |-> None, age |-> 0]
Envelope2 ==
    [sender_id |-> "s2", data |-> EmptyDict, correlation_id |-> Some("c1"), age |-> 1]

\* An envelope that is as old as the TTL of the history when it is sent.
Envelope3 ==
    [sender_id |-> "s3", data |-> EmptyDict, correlation_id |-> None, age |-> MessageTtl]

VARIABLES
    agents,            \* MessageBus.agents: the set of registered ids
    message_queues,    \* MessageBus.message_queues: id -> mailbox, on the ids that have one
    subscribers,       \* MessageBus.subscribers: kind -> list of ids
    message_handlers,  \* MessageBus.message_handlers: id -> kinds with a synchronous handler
    message_history,   \* MessageBus.message_history
    stats,             \* MessageBus.stats
    reg_agents,        \* EnhancedAgentRegistry.agents: id -> entry
    now,               \* datetime.utcnow()
    next_uuid,         \* number of uuid4() values drawn so far
    running,           \* MessageBus.running
    agent,             \* the fields of one BaseAgent
    tasks,             \* the coroutines of that agent the event loop holds
    inflight,          \* the send_message call suspended in a synchronous handler, if any
    last               \* the call that produced this state, and what it returned

busVars == <<agents, message_queues, subscribers, message_handlers, message_history, stats>>
agentVars == <<agent, tasks>>
vars == <<agents, message_queues, subscribers, message_handlers, message_history, stats,
          reg_agents, now, next_uuid, running, agent, tasks, inflight, last>>

(***************************************************************************)
(* Helpers for Python containers.                                          *)
(***************************************************************************)
\* x in list
InList(s, x) == \E i \in 1..Len(s) : s[i] = x

\* list.remove(x): removes the first occurrence of x
RECURSIVE ListRemove(_, _)
ListRemove(s, x) ==
    IF s = <<>> THEN <<>>
    ELSE IF Head(s) = x THEN Tail(s)
    ELSE <<Head(s)>> \o ListRemove(Tail(s), x)

\* del d[k]
DictDel(d, k) == [x \in (DOMAIN d) \ {k} |-> d[x]]

\* d[k] = v
DictSet(d, k, v) == [x \in (DOMAIN d) \cup {k} |-> IF x = k THEN v ELSE d[x]]

Min(a, b) == IF a < b THEN a ELSE b

\* A bounded queue that refuses the new item when it is full.
DequeAppendDropNewest(q, m) ==
    IF Len(q) >= MaxQueueSize THEN q ELSE Append(q, m)

\* deque(maxlen=max_queue_size).append(m): a full deque discards its oldest item
DequeAppend(q, m) ==
    IF MaxQueueSize = 0 THEN <<>>
    ELSE IF Len(q) >= MaxQueueSize THEN Append(Tail(q), m)
    ELSE Append(q, m)

\* Taking n items from the right end of the deque.
PopRight(queue, n) ==
    [ taken |-> [i \in 1..n |-> queue[Len(queue) + 1 - i]],
      rest  |-> SubSeq(queue, 1, Len(queue) - n) ]

\* n times queue.popleft(), each result appended to the list returned
PopLeft(queue, n) ==
    [ taken |-> SubSeq(queue, 1, n),
      rest  |-> SubSeq(queue, n + 1, Len(queue)) ]

\* message_queues[id], which a defaultdict creates empty when it is missing
QueueGetItem(queues, id) == IF id \in DOMAIN queues THEN queues[id] ELSE <<>>

(***************************************************************************)
(* The AgentMessage constructor.                                           *)
(***************************************************************************)
\* kw.id, kw.timestamp and kw.correlation_id are optional; uuid and utcnow are
\* the values uuid.uuid4() and datetime.utcnow() give when they are called.
AgentMessage(kw, uuid, utcnow) ==
    [ id             |-> IF kw.id = None THEN uuid ELSE kw.id[1],
      sender_id      |-> kw.sender_id,
      recipient_id   |-> kw.recipient_id,
      message_type   |-> kw.message_type,
      data           |-> kw.data,
      timestamp      |-> IF kw.timestamp = None THEN utcnow ELSE kw.timestamp[1],
      correlation_id |-> kw.correlation_id ]

(***************************************************************************)
(* MessageBus: the parts of send_message.                                  *)
(***************************************************************************)
\* message_handlers[recipient_id].get(message_type) is a handler
HasHandler(recipient_id, message_type) ==
    /\ recipient_id \in DOMAIN message_handlers
    /\ message_type \in message_handlers[recipient_id]

\* A bus that routes to any id, registered or not.
KnownAlways(recipient_id) == TRUE

\* recipient_id in self.agents
Known(recipient_id) == recipient_id \in agents

\* A bus that forgets to count a failed delivery.
CountFailedForgotten(st) == st

\* stats['messages_failed'] += 1
CountFailed(st) == [st EXCEPT !.messages_failed = @ + 1]

\* A bus that counts a delivery whose handler raised as failed.
CountDeliveredUnlessRaised(st, handler) ==
    IF handler = "raised"
    THEN [st EXCEPT !.messages_failed = @ + 1]
    ELSE [st EXCEPT !.messages_delivered = @ + 1]

\* stats['messages_delivered'] += 1, on the path where the handler returned
\* and on the path where there was none or it raised
CountDelivered(st, handler) == [st EXCEPT !.messages_delivered = @ + 1]

\* _send_to_recipient on the mailboxes `queues` and the counters `st`; raisers
\* are the ids whose synchronous handler raises when it is awaited.  The
\* result holds the new mailboxes and counters, the value returned, what
\* became of the handler, and whether the mailbox was full before the call.
SendToRecipient(queues, st, message, raisers) ==
    LET recipient_id == message.recipient_id
        handler == IF HasHandler(recipient_id, message.message_type)
                   THEN (IF recipient_id \in raisers THEN "raised" ELSE "returned")
                   ELSE "none"
    IN  IF ~Known(recipient_id)
        THEN [ queues  |-> queues,
               stats   |-> CountFailed(st),
               ret     |-> FALSE,
               handler |-> "none",
               full    |-> FALSE ]
        ELSE [ queues  |-> DictSet(queues, recipient_id,
                                   DequeAppend(QueueGetItem(queues, recipient_id), message)),
               stats   |-> CountDelivered(st, handler),
               ret     |-> TRUE,
               handler |-> handler,
               full    |-> Len(QueueGetItem(queues, recipient_id)) >= MaxQueueSize ]

\* The copy _broadcast_message makes of `message` for the subscriber agent_id.
BroadcastCopy(message, agent_id, uuid) ==
    AgentMessage([ id             |-> None,
                   sender_id      |-> message.sender_id,
                   recipient_id   |-> agent_id,
                   message_type   |-> message.message_type,
                   data           |-> IF message.data # EmptyDict THEN message.data ELSE EmptyDict,
                   timestamp      |-> Some(message.timestamp),
                   correlation_id |-> None ],
                 uuid, now)

\* The for loop of _broadcast_message from the i-th subscriber on; acc holds
\* the mailboxes, the counters, success_count and the handler outcomes so far.
RECURSIVE BroadcastLoop(_, _, _, _, _, _)
BroadcastLoop(subs, i, acc, message, uuid0, raisers) ==
    IF i > Len(subs) THEN acc
    ELSE LET agent_id == subs[i]
             agent_message == BroadcastCopy(message, agent_id, uuid0 + i)
             r == SendToRecipient(acc.queues, acc.stats, agent_message, raisers)
         IN  BroadcastLoop(subs, i + 1,
                 [ queues        |-> r.queues,
                   stats         |-> r.stats,
                   success_count |-> acc.success_count + (IF r.ret THEN 1 ELSE 0),
                   copies        |-> Append(acc.copies, agent_message),
                   handlers      |-> Append(acc.handlers, r.handler) ],
                 message, uuid0, raisers)

\* A broadcast that reports success when any subscriber accepted its copy.
BroadcastReturnAny(success_count, subs) == success_count > 0

\* return success_count == len(subscribers)
BroadcastReturn(success_count, subs) == success_count = Len(subs)

\* _broadcast_message; uuid0 is the number of uuids drawn before the call.
BroadcastMessage(queues, st, message, uuid0, raisers) ==
    LET subs == subscribers[message.message_type] IN
    IF subs = <<>>
    THEN [ queues |-> queues, stats |-> st, ret |-> TRUE, copies |-> <<>>, handlers |-> <<>> ]
    ELSE LET acc == BroadcastLoop(subs, 1,
                        [ queues |-> queues, stats |-> st, success_count |-> 0,
                          copies |-> <<>>, handlers |-> <<>> ],
                        message, uuid0, raisers)
         IN  [ queues   |-> acc.queues,
               stats    |-> acc.stats,
               ret      |-> BroadcastReturn(acc.success_count, subs),
               copies   |-> acc.copies,
               handlers |-> acc.handlers ]

\* A bus that never drops anything from its history.
CleanupNothing(history, utcnow) == history

\* _cleanup_old_messages
CleanupOldMessages(history, utcnow) ==
    LET cutoff_time == utcnow - MessageTtl
    IN  SelectSeq(history, LAMBDA msg : msg.timestamp > cutoff_time)

(***************************************************************************)
(* The record of the last call: its name, and for the calls whose effect   *)
(* or result is examined below its arguments and what it returned.         *)
(***************************************************************************)
NoCall == [op |-> "init"]

(***************************************************************************)
(* MessageBus: the public operations.                                      *)
(***************************************************************************)
\* What MessageBus.register_agent does to the bus.
BusRegister(agent_id) ==
    /\ agents' = agents \cup {agent_id}
    /\ UNCHANGED <<message_queues, subscribers, message_handlers, message_history, stats>>

\* An unregister_agent that leaves the mailbox of the agent in place.
BusUnregisterKeepsMailbox(agent_id) ==
    IF agent_id \in agents
    THEN /\ agents' = agents \ {agent_id}
         /\ subscribers' = [t \in DOMAIN subscribers |->
                               IF InList(subscribers[t], agent_id)
                               THEN ListRemove(subscribers[t], agent_id)
                               ELSE subscribers[t]]
         /\ UNCHANGED <<message_queues, message_handlers, message_history, stats>>
    ELSE UNCHANGED busVars

\* What MessageBus.unregister_agent does to the bus.
BusUnregister(agent_id) ==
    IF agent_id \in agents
    THEN /\ agents' = agents \ {agent_id}
         /\ message_queues' = IF agent_id \in DOMAIN message_queues
                              THEN DictDel(message_queues, agent_id)
                              ELSE message_queues
         /\ subscribers' = [t \in DOMAIN subscribers |->
                               IF InList(subscribers[t], agent_id)
                               THEN ListRemove(subscribers[t], agent_id)
                               ELSE subscribers[t]]
         /\ UNCHANGED <<message_handlers, message_history, stats>>
    ELSE UNCHANGED busVars

register_agent(agent_id) ==
    /\ BusRegister(agent_id)
    /\ last' = [op |-> "register_agent"]
    /\ UNCHANGED <<reg_agents, now, next_uuid, running, inflight, agentVars>>

unregister_agent(agent_id) ==
    /\ BusUnregister(agent_id)
    /\ last' = [op |-> "unregister_agent", agent_id |-> agent_id]
    /\ UNCHANGED <<reg_agents, now, next_uuid, running, inflight, agentVars>>

\* A subscribe that appends the id whether or not the list holds it.
AddSubscriberAgain(list, agent_id) == Append(list, agent_id)

\* if agent_id not in self.subscribers[message_type]: append
AddSubscriber(list, agent_id) ==
    IF ~InList(list, agent_id) THEN Append(list, agent_id) ELSE list

\* handler is TRUE when a handler is passed and FALSE when it is None
subscribe(agent_id, message_type, handler) ==
    /\ subscribers' = [subscribers EXCEPT ![message_type] = AddSubscriber(@, agent_id)]
    /\ message_handlers' =
          IF handler
          THEN DictSet(message_handlers, agent_id,
                       (IF agent_id \in DOMAIN message_handlers
                        THEN message_handlers[agent_id] ELSE {}) \cup {message_type})
          ELSE message_handlers
    /\ last' = [op |-> "subscribe"]
    /\ UNCHANGED <<agents, message_queues, message_history, stats, reg_agents, now, next_uuid, running, inflight, agentVars>>

unsubscribe(agent_id, message_type) ==
    /\ subscribers' = IF InList(subscribers[message_type], agent_id)
                      THEN [subscribers EXCEPT ![message_type] = ListRemove(@, agent_id)]
                      ELSE subscribers
    /\ message_handlers' =
          IF agent_id \in DOMAIN message_handlers /\ message_type \in message_handlers[agent_id]
          THEN [message_handlers EXCEPT ![agent_id] = @ \ {message_type}]
          ELSE message_handlers
    /\ last' = [op |-> "unsubscribe"]
    /\ UNCHANGED <<agents, message_queues, message_history, stats, reg_agents, now, next_uuid, running, inflight, agentVars>>

\* send_message(message) for a message the caller has just built; raisers
\* are the ids whose synchronous handler raises.  The except branch of
\* send_message is not reached: nothing in the try block raises.
send_message(message, raisers) ==
    LET st1 == [stats EXCEPT !.messages_sent = @ + 1]
        history1 == CleanupOldMessages(Append(message_history, message), now)
        broadcast == message.recipient_id = "broadcast" \/ message.recipient_id = "*"
        b == BroadcastMessage(message_queues, st1, message, next_uuid + 1, raisers)
        p == SendToRecipient(message_queues, st1, message, raisers)
    IN  /\ message_history' = history1
        /\ message_queues' = IF broadcast THEN b.queues ELSE p.queues
        /\ stats' = IF broadcast THEN b.stats ELSE p.stats
        /\ next_uuid' = next_uuid + 1 + (IF broadcast THEN Len(b.copies) ELSE 0)
        /\ last' = [ op       |-> "send_message",
                     message  |-> message,
                     ret      |-> IF broadcast THEN b.ret ELSE p.ret,
                     copies   |-> IF broadcast THEN b.copies ELSE <<>>,
                     handlers |-> IF broadcast THEN b.handlers ELSE <<p.handler>>,
                     full     |-> IF broadcast THEN FALSE ELSE p.full ]
        /\ UNCHANGED <<agents, subscribers, message_handlers, reg_agents, now, running, inflight, agentVars>>

get_messages(agent_id, limit) ==
    IF agent_id \notin DOMAIN message_queues
    THEN /\ last' = [op |-> "get_messages", agent_id |-> agent_id,
                     limit |-> limit, ret |-> <<>>]
         /\ UNCHANGED <<busVars, reg_agents, now, next_uuid, running, inflight, agentVars>>
    ELSE LET queue == message_queues[agent_id]
             popped == PopLeft(queue, Min(limit, Len(queue)))
         IN  /\ message_queues' = [message_queues EXCEPT ![agent_id] = popped.rest]
             /\ last' = [op |-> "get_messages", agent_id |-> agent_id,
                         limit |-> limit, ret |-> popped.taken]
             /\ UNCHANGED <<agents, subscribers, message_handlers, message_history, stats,
                            reg_agents, now, next_uuid, running, inflight, agentVars>>

\* MessageBus.start
start ==
    /\ running' = TRUE
    /\ last' = [op |-> "start"]
    /\ UNCHANGED <<busVars, reg_agents, now, next_uuid, agentVars, inflight>>

\* MessageBus.stop: both clear() calls empty the container they are called on;
\* self.agents, the subscriber lists and the handler table are left alone.
stop ==
    /\ running' = FALSE
    /\ message_queues' = <<>>
    /\ message_history' = <<>>
    /\ last' = [op |-> "stop"]
    /\ UNCHANGED <<agents, subscribers, message_handlers, stats, reg_agents, now, next_uuid,
                   agentVars, inflight>>

(***************************************************************************)
(* MessageBus: a send_message whose synchronous handler suspends.  The     *)
(* call runs up to the await of a handler that suspends, is held in        *)
(* `inflight` while other calls run, and goes on when the handler ends.    *)
(* The list _broadcast_message iterates is the list object the subscriber  *)
(* table holds, which subscribe, unsubscribe and unregister_agent change   *)
(* in place: the for loop reads its next item, by position, from the list  *)
(* as it is when the loop goes on.  acc holds the mailboxes, the counters, *)
(* success_count, the copies made, the number of uuids drawn, the position *)
(* of the subscriber whose handler the call is suspended in (0 when it is  *)
(* not suspended) and the value returned.                                  *)
(***************************************************************************)
\* self.message_queues[recipient_id].append(message), for a copy just built
Enqueued(acc, copy) ==
    [acc EXCEPT !.queues = DictSet(@, copy.recipient_id,
                                   DequeAppend(QueueGetItem(@, copy.recipient_id), copy)),
                !.copies = Append(@, copy),
                !.uuid = @ + 1]

\* _send_to_recipient has returned False for a copy just built
Refused(acc, copy) ==
    [acc EXCEPT !.stats = CountFailed(@), !.copies = Append(@, copy), !.uuid = @ + 1]

\* _send_to_recipient has returned True, and the loop has counted it
Accepted(acc) ==
    [acc EXCEPT !.stats = CountDelivered(@, "returned"), !.success_count = @ + 1]

\* The loop is over: return success_count == len(subscribers)
Returned(acc, subs) ==
    [acc EXCEPT !.at = 0, !.ret = BroadcastReturn(acc.success_count, subs)]

\* The iterations of the for loop from position i on, up to the await of a
\* handler that suspends: the handlers of the ids in suspenders suspend,
\* the others return at once.
RECURSIVE BroadcastRun(_, _, _, _)
RECURSIVE BroadcastVisit(_, _, _, _, _)
BroadcastRun(i, acc, message, suspenders) ==
    IF i > Len(subscribers[message.message_type])
    THEN Returned(acc, subscribers[message.message_type])
    ELSE BroadcastVisit(i, acc, message,
                        BroadcastCopy(message, subscribers[message.message_type][i],
                                      acc.uuid + 1),
                        suspenders)

BroadcastVisit(i, acc, message, copy, suspenders) ==
    IF ~Known(copy.recipient_id)
    THEN BroadcastRun(i + 1, Refused(acc, copy), message, suspenders)
    ELSE IF HasHandler(copy.recipient_id, copy.message_type)
            /\ copy.recipient_id \in suspenders
         THEN [Enqueued(acc, copy) EXCEPT !.at = i]
         ELSE BroadcastRun(i + 1, Accepted(Enqueued(acc, copy)), message, suspenders)

\* _send_to_recipient(message) for the message passed to send_message, up to
\* the await of a handler that suspends.
DirectRun(acc, message, suspenders) ==
    IF ~Known(message.recipient_id)
    THEN [acc EXCEPT !.stats = CountFailed(@), !.ret = FALSE]
    ELSE IF HasHandler(message.recipient_id, message.message_type)
            /\ message.recipient_id \in suspenders
         THEN [acc EXCEPT !.queues = DictSet(@, message.recipient_id,
                              DequeAppend(QueueGetItem(@, message.recipient_id), message)),
                          !.at = 1]
         ELSE [acc EXCEPT !.queues = DictSet(@, message.recipient_id,
                              DequeAppend(QueueGetItem(@, message.recipient_id), message)),
                          !.stats = CountDelivered(@, "returned"),
                          !.ret = TRUE]

\* The call f of send_message has run to acc: it is suspended, or it has
\* returned.
Settle(f, acc) ==
    /\ message_queues' = acc.queues
    /\ stats' = acc.stats
    /\ next_uuid' = acc.uuid
    /\ IF acc.at # 0
       THEN /\ inflight' = Some([f EXCEPT !.at = acc.at,
                                          !.success_count = acc.success_count,
                                          !.copies = acc.copies])
            /\ last' = [ op |-> "send_message.suspended", message |-> f.message,
                         copies |-> acc.copies ]
       ELSE /\ inflight' = None
            /\ last' = [ op |-> "send_message.returned", message |-> f.message,
                         ret |-> acc.ret, copies |-> acc.copies, began |-> f.began ]

\* send_message(message), for a message the caller has just built, up to
\* its return or to the await of a handler that suspends; began are the
\* registered subscribers of the kind when the call begins.
send_begin(message, suspenders) ==
    /\ inflight = None
    /\ message_history' = CleanupOldMessages(Append(message_history, message), now)
    /\ \E f \in {[ message       |-> message,
                    suspenders    |-> suspenders,
                    began         |-> {a \in agents :
                                          InList(subscribers[message.message_type], a)},
                    at            |-> 0,
                    success_count |-> 0,
                    copies        |-> <<>> ]} :
       \E acc \in {[ queues        |-> message_queues,
                      stats         |-> [stats EXCEPT !.messages_sent = @ + 1],
                      success_count |-> 0,
                      copies        |-> <<>>,
                      uuid          |-> next_uuid + 1,
                      at            |-> 0,
                      ret           |-> TRUE ]} :
          IF message.recipient_id = "broadcast" \/ message.recipient_id = "*"
          THEN Settle(f, BroadcastRun(1, acc, message, suspenders))
          ELSE Settle(f, DirectRun(acc, message, suspenders))
    /\ UNCHANGED <<agents, subscribers, message_handlers, reg_agents, now, running, agentVars>>

\* The handler the suspended call awaits ends, by returning or by raising:
\* _send_to_recipient counts the delivery and returns True either way, and
\* a broadcast goes on with the next position of its loop.
handler_resume ==
    /\ inflight # None
    /\ \E f \in {inflight[1]} :
       \E acc \in {[ queues        |-> message_queues,
                      stats         |-> CountDelivered(stats, "returned"),
                      success_count |-> f.success_count + 1,
                      copies        |-> f.copies,
                      uuid          |-> next_uuid,
                      at            |-> 0,
                      ret           |-> TRUE ]} :
          IF f.message.recipient_id = "broadcast" \/ f.message.recipient_id = "*"
          THEN Settle(f, BroadcastRun(f.at + 1, acc, f.message, f.suspenders))
          ELSE Settle(f, acc)
    /\ UNCHANGED <<agents, subscribers, message_handlers, message_history, reg_agents, now,
                   running, agentVars>>

(***************************************************************************)
(* EnhancedAgentRegistry.  An entry keeps the fields that change; its      *)
(* agent_type, capabilities, counters and instance are fixed at            *)
(* registration and never read by the operations modelled here.            *)
(***************************************************************************)
\* A registry whose unregister_agent leaves the bus alone.
RegistryUnregisterFromBusForgotten(agent_id) == UNCHANGED busVars

\* self.message_bus.unregister_agent(agent_id)
RegistryUnregisterFromBus(agent_id) == BusUnregister(agent_id)

registry_register_agent(agent_id) ==
    /\ reg_agents' = DictSet(reg_agents, agent_id,
                             [ status         |-> "active",
                               last_heartbeat |-> now,
                               registered_at  |-> now ])
    /\ BusRegister(agent_id)
    /\ last' = [op |-> "registry.register_agent"]
    /\ UNCHANGED <<now, next_uuid, running, inflight, agentVars>>

registry_unregister_agent(agent_id) ==
    /\ IF agent_id \in DOMAIN reg_agents
       THEN /\ reg_agents' = DictDel(reg_agents, agent_id)
            /\ RegistryUnregisterFromBus(agent_id)
       ELSE UNCHANGED <<reg_agents, busVars>>
    /\ last' = [op |-> "registry.unregister_agent", agent_id |-> agent_id]
    /\ UNCHANGED <<now, next_uuid, running, inflight, agentVars>>

(***************************************************************************)
(* BaseAgent: the object BaseAgent.__init__ builds, and the event loop     *)
(* before any of its coroutines is called.                                 *)
(***************************************************************************)
\* self.status, self.running, self.message_queue (an asyncio.Queue without a
\* maxsize), self.tasks_processed, self.errors, self.last_heartbeat
BaseAgentInit(utcnow) ==
    [ status          |-> "starting",
      running         |-> FALSE,
      message_queue   |-> <<>>,
      tasks_processed |-> 0,
      errors          |-> 0,
      last_heartbeat  |-> utcnow ]

\* The coroutines of the agent that the event loop holds: the calls of
\* start() suspended in initialize(), the calls of stop() suspended in
\* cleanup(), and the tasks start() created for _message_loop and
\* _heartbeat_loop, in the order of their creation.
NoTasks ==
    [ starts          |-> 0,
      stops           |-> 0,
      message_loops   |-> <<>>,
      heartbeat_loops |-> <<>> ]

(***************************************************************************)
(* MCPMessage.                                                             *)
(***************************************************************************)
\* MCPMessage(message_type, payload, source, target, correlation_id): target
\* and correlation_id are optional; uuid and utcnow are the values
\* uuid.uuid4() and datetime.utcnow() give in the constructor.
MCPMessage(kw, uuid, utcnow) ==
    [ id             |-> uuid,
      timestamp      |-> utcnow,
      message_type   |-> kw.message_type,
      payload        |-> kw.payload,
      source         |-> kw.source,
      target         |-> kw.target,
      correlation_id |-> IF kw.correlation_id = None THEN uuid ELSE kw.correlation_id[1] ]

\* datetime.isoformat(): the text of a time
Isoformat(t) == [isoformat |-> t]

\* MCPMessage.to_dict
ToDict(m) ==
    [ id             |-> m.id,
      timestamp      |-> Isoformat(m.timestamp),
      type           |-> m.message_type,
      payload        |-> m.payload,
      source         |-> m.source,
      target         |-> m.target,
      correlation_id |-> m.correlation_id ]

\* datetime.fromisoformat: the time a text written by isoformat() denotes
Fromisoformat(text) == text.isoformat

\* A from_dict that keeps the id and the timestamp the constructor drew.
FromDictFresh(data, uuid, utcnow) ==
    MCPMessage([ message_type   |-> data.type,
                 payload        |-> data.payload,
                 source         |-> data.source,
                 target         |-> data.target,
                 correlation_id |-> Some(data.correlation_id) ],
               uuid, utcnow)

\* MCPMessage.from_dict: the constructor runs, drawing a uuid and the time,
\* and then id and timestamp are overwritten from data.  The correlation id
\* of a dict that to_dict() wrote is the id or an explicit, non-empty one.
FromDict(data, uuid, utcnow) ==
    [ MCPMessage([ message_type   |-> data.type,
                   payload        |-> data.payload,
                   source         |-> data.source,
                   target         |-> data.target,
                   correlation_id |-> Some(data.correlation_id) ],
                 uuid, utcnow)
      EXCEPT !.id = data.id, !.timestamp = Fromisoformat(data.timestamp) ]

(***************************************************************************)
(* BaseAgent.  The agent modelled is the one with agent_id "a1".  A        *)
(* coroutine runs without interruption from one await that suspends to the *)
(* next, so each action below is one such stretch of one coroutine.        *)
(***************************************************************************)
AgentId == "a1"

\* self.message_handlers: "ping" stands for the three handlers __init__
\* registers, which answer without awaiting anything; "task" and
\* "log_analysis" have a handler that a subclass registers, which may
\* suspend and then returns None or raises.
SubclassHandlers == {"task", "log_analysis"}
AgentHandlers == {"ping"} \cup SubclassHandlers

\* The kinds of the messages the agent is given; "note" has no handler.
MCPKinds == {"ping", "task", "note"}

\* The text str(e) of the exception a "task" handler raises.
ExceptionText == "boom"

\* Two payloads: one of JSON values, and one that holds a datetime under
\* the key "at".
PayloadJson == [n |-> 1]
PayloadObject == [n |-> 1, at |-> [datetime |-> 0]]

\* json.dumps(payload, indent=2) raises TypeError: the payload, or the payload
\* of the original message an error reply carries, holds a datetime.
JsonDumpsRaises(payload) ==
    IF "original_message" \in DOMAIN payload
    THEN "at" \in DOMAIN payload.original_message.payload
    ELSE "at" \in DOMAIN payload

\* A message somebody builds for the agent.
IncomingMessage(message_type, payload, source, correlation_id) ==
    MCPMessage([ message_type   |-> message_type,
                 payload        |-> payload,
                 source         |-> source,
                 target         |-> Some(AgentId),
                 correlation_id |-> correlation_id ],
               next_uuid + 1, now)

\* _handle_ping
HandlePing(message, uuid, utcnow) ==
    MCPMessage([ message_type   |-> "pong",
                 payload        |-> [timestamp |-> Isoformat(utcnow)],
                 source         |-> AgentId,
                 target         |-> Some(message.source),
                 correlation_id |-> Some(message.correlation_id) ],
               uuid, utcnow)

\* An error reply that starts a correlation of its own.
ErrorResponseUncorrelated(message, uuid, utcnow) ==
    MCPMessage([ message_type   |-> "error",
                 payload        |-> [ error            |-> ExceptionText,
                                      original_message |-> ToDict(message) ],
                 source         |-> AgentId,
                 target         |-> Some(message.source),
                 correlation_id |-> None ],
               uuid, utcnow)

\* The error_response _process_message builds in its except branch.
ErrorResponse(message, uuid, utcnow) ==
    MCPMessage([ message_type   |-> "error",
                 payload        |-> [ error            |-> ExceptionText,
                                      original_message |-> ToDict(message) ],
                 source         |-> AgentId,
                 target         |-> Some(message.source),
                 correlation_id |-> Some(message.correlation_id) ],
               uuid, utcnow)

\* The heartbeat _heartbeat_loop builds, after it has set last_heartbeat.
Heartbeat(a, uuid, utcnow) ==
    MCPMessage([ message_type   |-> "heartbeat",
                 payload        |-> [ agent_id        |-> AgentId,
                                      status          |-> a.status,
                                      timestamp       |-> Isoformat(a.last_heartbeat),
                                      tasks_processed |-> a.tasks_processed,
                                      errors          |-> a.errors ],
                 source         |-> AgentId,
                 target         |-> Some("registry"),
                 correlation_id |-> None ],
               uuid, utcnow)

\* BaseAgent.send_message(message) prints the kind and the target of the
\* message, then its payload as JSON, and does nothing else: it raises when
\* json.dumps does, and otherwise the state of the bus, of the registry and
\* of every agent after it is the state before it.
AgentSendRaises(message) == JsonDumpsRaises(message.payload)
AgentSendMessage(message) == UNCHANGED <<busVars, reg_agents, running, inflight>>

\* A new task of _message_loop or _heartbeat_loop, not yet run.
NewMessageLoop == [pc |-> "created", message |-> None]
NewHeartbeatLoop == [pc |-> "created", wake |-> 0]

\* The messages given to the agent so far.
Received ==
    agent.tasks_processed + agent.errors + Len(agent.message_queue)
    + Cardinality({i \in 1..Len(tasks.message_loops) :
                      tasks.message_loops[i].pc = "handling"})

\* BaseAgent.start up to its await of initialize().
agent_start ==
    /\ agent' = [agent EXCEPT !.status = "starting", !.running = TRUE]
    /\ tasks' = [tasks EXCEPT !.starts = @ + 1,
                              !.message_loops = Append(@, NewMessageLoop),
                              !.heartbeat_loops = Append(@, NewHeartbeatLoop)]
    /\ last' = [op |-> "agent.start"]
    /\ UNCHANGED <<busVars, reg_agents, running, inflight, now, next_uuid>>

\* BaseAgent.start from the return of initialize().
agent_start_return ==
    /\ tasks.starts > 0
    /\ agent' = [agent EXCEPT !.status = "online"]
    /\ tasks' = [tasks EXCEPT !.starts = @ - 1]
    /\ last' = [op |-> "agent.start.return"]
    /\ UNCHANGED <<busVars, reg_agents, running, inflight, now, next_uuid>>

\* BaseAgent.start when initialize() raises: the exception leaves start(),
\* which has no try around the await, and none of its statements after the
\* await runs.
agent_start_raises ==
    /\ tasks.starts > 0
    /\ tasks' = [tasks EXCEPT !.starts = @ - 1]
    /\ last' = [op |-> "agent.start.raised"]
    /\ UNCHANGED <<busVars, reg_agents, running, inflight, now, next_uuid, agent>>

\* A stop() that leaves the running flag as it is.
agent_stop_flag_kept ==
    /\ agent' = [agent EXCEPT !.status = "stopping"]
    /\ tasks' = [tasks EXCEPT !.stops = @ + 1]
    /\ last' = [op |-> "agent.stop"]
    /\ UNCHANGED <<busVars, reg_agents, running, inflight, now, next_uuid>>

\* BaseAgent.stop up to its await of cleanup().
agent_stop ==
    /\ agent' = [agent EXCEPT !.status = "stopping", !.running = FALSE]
    /\ tasks' = [tasks EXCEPT !.stops = @ + 1]
    /\ last' = [op |-> "agent.stop"]
    /\ UNCHANGED <<busVars, reg_agents, running, inflight, now, next_uuid>>

\* BaseAgent.stop from the return of cleanup().
agent_stop_return ==
    /\ tasks.stops > 0
    /\ agent' = [agent EXCEPT !.status = "offline"]
    /\ tasks' = [tasks EXCEPT !.stops = @ - 1]
    /\ last' = [op |-> "agent.stop.return"]
    /\ UNCHANGED <<busVars, reg_agents, running, inflight, now, next_uuid>>

\* BaseAgent.receive_message(message), for a message the caller has just
\* built: the put on a queue without a maxsize never waits.
receive_message(message) ==
    /\ agent' = [agent EXCEPT !.message_queue = Append(@, message)]
    /\ next_uuid' = next_uuid + 1
    /\ last' = [op |-> "receive_message", message |-> message]
    /\ UNCHANGED <<busVars, reg_agents, running, inflight, now, tasks>>

\* A loop that starts its next iteration whatever self.running is.
LoopPcAlways(a) == "wait"

\* Where _message_loop goes from the end of an iteration: `while
\* self.running` and, if it holds, into the wait for the next message.
LoopPc(a) == IF a.running THEN "wait" ELSE "exited"

\* The first run of a task of _message_loop.
message_loop_begin(i) ==
    /\ tasks.message_loops[i].pc = "created"
    /\ tasks' = [tasks EXCEPT !.message_loops[i].pc = LoopPc(agent)]
    /\ last' = [op |-> "_message_loop"]
    /\ UNCHANGED <<busVars, reg_agents, running, inflight, now, next_uuid, agent>>

\* asyncio.TimeoutError in the wait of _message_loop: `continue`.  While
\* self.running holds the task is back in the same wait.
message_loop_timeout(i) ==
    /\ tasks.message_loops[i].pc = "wait"
    /\ agent.message_queue = <<>>
    /\ ~agent.running
    /\ tasks' = [tasks EXCEPT !.message_loops[i].pc = "exited"]
    /\ last' = [op |-> "_message_loop"]
    /\ UNCHANGED <<busVars, reg_agents, running, inflight, now, next_uuid, agent>>

\* An agent that counts a message without a handler as an error.
UnhandledAsError(a) ==
    [a EXCEPT !.message_queue = Tail(@), !.errors = @ + 1]

\* The agent after its loop took a message whose kind has no handler:
\* _process_message prints a note and returns, and the loop counts the
\* message in tasks_processed.
Unhandled(a) ==
    [a EXCEPT !.message_queue = Tail(@), !.tasks_processed = @ + 1]

\* What the call `last` records of one _process_message.
Processed(message, outcome, sent) ==
    [op |-> "_process_message", message |-> message, outcome |-> outcome, sent |-> sent]

\* The wait of _message_loop returns a message, and _process_message runs
\* up to the first await that suspends: to its end when the kind has no
\* handler and when the handler is _handle_ping, into the handler when it
\* is one a subclass registered.
message_loop_get(i) ==
    /\ tasks.message_loops[i].pc = "wait"
    /\ agent.message_queue # <<>>
    /\ LET message == Head(agent.message_queue)
           response == HandlePing(message, next_uuid + 1, now)
       IN  CASE message.message_type \notin AgentHandlers ->
                  /\ agent' = Unhandled(agent)
                  /\ tasks' = [tasks EXCEPT !.message_loops[i].pc = LoopPc(agent)]
                  /\ last' = Processed(message, "no_handler", <<>>)
                  /\ UNCHANGED <<busVars, reg_agents, running, inflight, next_uuid>>
             [] message.message_type = "ping" ->
                  /\ AgentSendMessage(response)
                  /\ agent' = [agent EXCEPT !.message_queue = Tail(@),
                                            !.tasks_processed = @ + 1]
                  /\ tasks' = [tasks EXCEPT !.message_loops[i].pc = LoopPc(agent)]
                  /\ next_uuid' = next_uuid + 1
                  /\ last' = Processed(message, "returned", <<response>>)
             [] message.message_type \in SubclassHandlers ->
                  /\ agent' = [agent EXCEPT !.message_queue = Tail(@)]
                  /\ tasks' = [tasks EXCEPT !.message_loops[i].pc = "handling",
                                            !.message_loops[i].message = Some(message)]
                  /\ last' = Processed(message, "suspended", <<>>)
                  /\ UNCHANGED <<busVars, reg_agents, running, inflight, next_uuid>>
    /\ UNCHANGED now

\* The handler a subclass registered returns None: _process_message sends nothing, and
\* _message_loop counts the message.
handler_returns(i) ==
    /\ tasks.message_loops[i].pc = "handling"
    /\ agent' = [agent EXCEPT !.tasks_processed = @ + 1]
    /\ tasks' = [tasks EXCEPT !.message_loops[i].pc = LoopPc(agent),
                              !.message_loops[i].message = None]
    /\ last' = Processed(tasks.message_loops[i].message[1], "returned", <<>>)
    /\ UNCHANGED <<busVars, reg_agents, running, inflight, now, next_uuid>>

\* The handler a subclass registered raises: the except branch of _process_message
\* builds error_response and sends it.  When that send returns,
\* _process_message returns and _message_loop counts the message in
\* tasks_processed; when that send raises, the exception reaches the except
\* branch of _message_loop, which counts it in errors.
handler_raises(i) ==
    /\ tasks.message_loops[i].pc = "handling"
    /\ LET message == tasks.message_loops[i].message[1]
           error_response == ErrorResponse(message, next_uuid + 1, now)
       IN  /\ AgentSendMessage(error_response)
           /\ agent' = IF AgentSendRaises(error_response)
                       THEN [agent EXCEPT !.errors = @ + 1]
                       ELSE [agent EXCEPT !.tasks_processed = @ + 1]
           /\ last' = Processed(message, "raised", <<error_response>>)
    /\ tasks' = [tasks EXCEPT !.message_loops[i].pc = LoopPc(agent),
                              !.message_loops[i].message = None]
    /\ next_uuid' = next_uuid + 1
    /\ UNCHANGED now

\* A task of _heartbeat_loop runs: for the first time, or when its sleep is
\* over.  `while self.running`, and if it holds one heartbeat and the next
\* sleep.  The payload of a heartbeat is JSON, so the except branch of the
\* loop is not reached.
heartbeat_loop_run(i) ==
    /\ \/ tasks.heartbeat_loops[i].pc = "created"
       \/ tasks.heartbeat_loops[i].pc = "sleep" /\ now >= tasks.heartbeat_loops[i].wake
    /\ IF agent.running
       THEN LET a1 == [agent EXCEPT !.last_heartbeat = now]
                heartbeat == Heartbeat(a1, next_uuid + 1, now)
            IN  /\ agent' = a1
                /\ AgentSendMessage(heartbeat)
                /\ next_uuid' = next_uuid + 1
                /\ tasks' = [tasks EXCEPT !.heartbeat_loops[i] =
                                [pc |-> "sleep", wake |-> now + HeartbeatSleep]]
                /\ last' = [op |-> "_heartbeat_loop", sent |-> <<heartbeat>>]
       ELSE /\ tasks' = [tasks EXCEPT !.heartbeat_loops[i] = [pc |-> "exited", wake |-> 0]]
            /\ last' = [op |-> "_heartbeat_loop", sent |-> <<>>]
            /\ UNCHANGED <<busVars, reg_agents, running, inflight, next_uuid, agent>>
    /\ UNCHANGED now

\* Time passes: the 30 seconds of one sleep of _heartbeat_loop.  A task that
\* is ready to run, or whose sleep is over, runs before more time passes.
Tick ==
    /\ now < MaxTime
    /\ \A i \in 1..Len(tasks.heartbeat_loops) :
          tasks.heartbeat_loops[i].pc = "sleep" => now < tasks.heartbeat_loops[i].wake
    /\ \A i \in 1..Len(tasks.heartbeat_loops) : tasks.heartbeat_loops[i].pc # "created"
    /\ now' = now + HeartbeatSleep
    /\ last' = [op |-> "tick"]
    /\ UNCHANGED <<busVars, reg_agents, running, inflight, next_uuid, agentVars>>

(***************************************************************************)
(* EnhancedAgentRegistry: health monitoring.                               *)
(***************************************************************************)
\* The state of the bus that a send reads and writes.
BusState ==
    [queues |-> message_queues, history |-> message_history, stats |-> stats, uuid |-> next_uuid]

\* What send_message leaves and returns when it took the broadcast branch
\* (bm is what _broadcast_message did), and when it took the other branch
\* (p is what _send_to_recipient did).
BroadcastSent(bm, history, uuid) ==
    [ queues |-> bm.queues, history |-> history, stats |-> bm.stats,
      uuid |-> uuid + Len(bm.copies), ret |-> bm.ret, copies |-> bm.copies ]
DirectSent(p, history, uuid) ==
    [ queues |-> p.queues, history |-> history, stats |-> p.stats,
      uuid |-> uuid, ret |-> p.ret, copies |-> <<>> ]

\* MessageBus.send_message on bus state b: b after it, what it returned and
\* the copies it made.
SendMessageOn(b, message, raisers) ==
    LET st1 == [b.stats EXCEPT !.messages_sent = @ + 1]
        history1 == CleanupOldMessages(Append(b.history, message), now)
    IN  IF message.recipient_id = "broadcast" \/ message.recipient_id = "*"
        THEN BroadcastSent(BroadcastMessage(b.queues, st1, message, b.uuid, raisers),
                           history1, b.uuid)
        ELSE DirectSent(SendToRecipient(b.queues, st1, message, raisers), history1, b.uuid)

\* The event_message of publish_event.
EventMessage(event_type, sender_id, data, uuid) ==
    AgentMessage([ id             |-> None,
                   sender_id      |-> sender_id,
                   recipient_id   |-> "broadcast",
                   message_type   |-> event_type,
                   data           |-> data,
                   timestamp      |-> Some(now),
                   correlation_id |-> None ],
                 uuid, now)

\* MessageBus.publish_event(event_type, sender_id, data) on bus state b: the
\* bus after it, and the event it sent.
PublishEvent(b, event_type, sender_id, data, raisers) ==
    [ bus   |-> SendMessageOn([b EXCEPT !.uuid = @ + 1],
                              EventMessage(event_type, sender_id, data, b.uuid + 1), raisers),
      event |-> EventMessage(event_type, sender_id, data, b.uuid + 1) ]

\* current_time - last_heartbeat > timeout_threshold
TimedOut(agent_info, current_time) ==
    current_time - agent_info.last_heartbeat > HeartbeatTimeout

\* A health check that reports an entry whatever its status is.
NotInactiveAlways(agent_info) == TRUE

\* agent_info['status'] != 'inactive'
NotInactive(agent_info) == agent_info.status # "inactive"

\* The data of the event check_agent_health publishes for an entry.
InactiveEvent(agent_id, agent_info) ==
    { <<"agent_id", agent_id>>, <<"status", "inactive">>,
      <<"last_heartbeat", Isoformat(agent_info.last_heartbeat)>> }

\* The body of the inner if of check_agent_health for the entry of
\* agent_id: the entry is set inactive, and pub is what publish_event did.
Reported(acc, agent_id, pub) ==
    [ agents |-> [acc.agents EXCEPT ![agent_id].status = "inactive"],
      bus    |-> pub.bus,
      events |-> Append(acc.events, pub.event) ]

\* The for loop of check_agent_health over the entries, visited in the
\* order `order`, from position i on; acc holds the entries, the state of
\* the bus and the events published so far.
RECURSIVE HealthLoop(_, _, _, _)
HealthLoop(order, i, acc, raisers) ==
    IF i > Len(order) THEN acc
    ELSE IF TimedOut(acc.agents[order[i]], now) /\ NotInactive(acc.agents[order[i]])
         THEN HealthLoop(order, i + 1,
                         Reported(acc, order[i],
                                  PublishEvent(acc.bus, "agent_status", "registry",
                                               InactiveEvent(order[i], acc.agents[order[i]]),
                                               raisers)),
                         raisers)
         ELSE HealthLoop(order, i + 1, acc, raisers)

\* The orders in which a dict with the keys S can be iterated.  A dict is
\* iterated in the order its keys were first inserted, which the entries do
\* not record: every order is explored.
Orders(S) ==
    {o \in [1..Cardinality(S) -> S] : \A i, j \in 1..Cardinality(S) : i # j => o[i] # o[j]}

update_heartbeat(agent_id) ==
    /\ reg_agents' = IF agent_id \in DOMAIN reg_agents
                     THEN [reg_agents EXCEPT ![agent_id].last_heartbeat = now,
                                             ![agent_id].status = "active"]
                     ELSE reg_agents
    /\ last' = [op |-> "update_heartbeat", agent_id |-> agent_id]
    /\ UNCHANGED <<busVars, now, next_uuid, running, inflight, agentVars>>

check_agent_health(raisers) ==
    \E order \in Orders(DOMAIN reg_agents) :
       \E done \in {HealthLoop(order, 1,
                              [agents |-> reg_agents, bus |-> BusState, events |-> <<>>],
                              raisers)} :
           /\ reg_agents' = done.agents
           /\ message_queues' = done.bus.queues
           /\ message_history' = done.bus.history
           /\ stats' = done.bus.stats
           /\ next_uuid' = done.bus.uuid
           /\ last' = [op |-> "check_agent_health", events |-> done.events]
           /\ UNCHANGED <<agents, subscribers, message_handlers, now, running, inflight, agentVars>>

(***************************************************************************)
(* The specification of the bus.                                           *)
(***************************************************************************)
Init ==
    /\ agents = {}
    /\ message_queues = <<>>
    /\ subscribers = [t \in MessageTypes |-> <<>>]
    /\ message_handlers = <<>>
    /\ message_history = <<>>
    /\ stats = [messages_sent |-> 0, messages_delivered |-> 0,
                messages_failed |-> 0, messages_dropped |-> 0]
    /\ reg_agents = <<>>
    /\ now = 0
    /\ next_uuid = 0
    /\ running = FALSE
    /\ agent = BaseAgentInit(0)
    /\ tasks = NoTasks
    /\ inflight = None
    /\ last = NoCall

\* The envelope a caller builds from contents c for recipient_id.
NewEnvelope(c, recipient_id, message_type) ==
    AgentMessage([ id             |-> None,
                   sender_id      |-> c.sender_id,
                   recipient_id   |-> recipient_id,
                   message_type   |-> message_type,
                   data           |-> c.data,
                   timestamp      |-> Some(now - c.age),
                   correlation_id |-> c.correlation_id ],
                 next_uuid + 1, now)

\* A caller sends a log_analysis envelope to one agent id.
SendDirect ==
    /\ stats.messages_sent < MaxSends
    /\ \E recipient_id \in AgentIds :
          send_message(NewEnvelope(Envelope1, recipient_id, "log_analysis"), {})

\* A caller sends an envelope of either kind to one agent id; the handler the
\* send awaits, if any, returns or raises.
SendToHandler ==
    /\ stats.messages_sent < MaxHandlerSends
    /\ \E recipient_id \in AgentIds, message_type \in MessageTypes :
          \E raisers \in SUBSET {recipient_id} :
             send_message(NewEnvelope(Envelope1, recipient_id, message_type), raisers)

\* A caller sends a log_analysis envelope to the subscribers of that kind,
\* under either broadcast address, or to the first agent id.
SendAny ==
    /\ stats.messages_sent < MaxBroadcastSends
    /\ \E e \in {<<Envelope1, "broadcast">>, <<Envelope2, "*">>, <<Envelope1, "a1">>} :
          send_message(NewEnvelope(e[1], e[2], "log_analysis"), {})

(***************************************************************************)
(* Spec: mailboxes.  Agents come and go, are sent messages point-to-point  *)
(* and poll their mailboxes.                                               *)
(***************************************************************************)
Next ==
    \/ \E agent_id \in AgentIds : register_agent(agent_id)
    \/ \E agent_id \in AgentIds : unregister_agent(agent_id)
    \/ SendDirect
    \/ \E agent_id \in AgentIds, limit \in 0..MaxLimit : get_messages(agent_id, limit)

Spec == Init /\ [][Next]_vars

(***************************************************************************)
(* SpecHandlers: synchronous handlers.  Agents come and go, subscribe to   *)
(* log_analysis with a handler, unsubscribe, and are sent messages of      *)
(* both kinds point-to-point.                                              *)
(***************************************************************************)
NextHandlers ==
    \/ \E agent_id \in AgentIds : register_agent(agent_id)
    \/ \E agent_id \in AgentIds : unregister_agent(agent_id)
    \/ \E agent_id \in AgentIds : subscribe(agent_id, "log_analysis", TRUE)
    \/ \E agent_id \in AgentIds : unsubscribe(agent_id, "log_analysis")
    \/ SendToHandler

SpecHandlers == Init /\ [][NextHandlers]_vars

(***************************************************************************)
(* SpecBroadcast: subscriptions without handlers, and log_analysis         *)
(* messages sent point-to-point and to both broadcast addresses.           *)
(***************************************************************************)
NextBroadcast ==
    \/ \E agent_id \in AgentIds : register_agent(agent_id)
    \/ \E agent_id \in AgentIds : unregister_agent(agent_id)
    \/ \E agent_id \in AgentIds : subscribe(agent_id, "log_analysis", FALSE)
    \/ \E agent_id \in AgentIds : unsubscribe(agent_id, "log_analysis")
    \/ SendAny

SpecBroadcast == Init /\ [][NextBroadcast]_vars

(***************************************************************************)
(* SpecRegistry: registrations through the registry and directly on its    *)
(* bus, with subscriptions and point-to-point sends in between.            *)
(***************************************************************************)
NextRegistry ==
    \/ \E agent_id \in AgentIds : registry_register_agent(agent_id)
    \/ \E agent_id \in AgentIds : registry_unregister_agent(agent_id)
    \/ \E agent_id \in AgentIds : register_agent(agent_id)
    \/ \E agent_id \in AgentIds : unregister_agent(agent_id)
    \/ \E agent_id \in AgentIds : subscribe(agent_id, "agent_status", FALSE)
    \/ /\ stats.messages_sent < MaxRegistrySends
       /\ \E recipient_id \in AgentIds :
             send_message(NewEnvelope(Envelope1, recipient_id, "agent_status"), {})

SpecRegistry == Init /\ [][NextRegistry]_vars

(***************************************************************************)
(* SpecStop: the mailboxes of Spec on a bus that is started and stopped.   *)
(***************************************************************************)
NextStop ==
    \/ \E agent_id \in AgentIds : register_agent(agent_id)
    \/ \E agent_id \in AgentIds : unregister_agent(agent_id)
    \/ SendDirect
    \/ \E agent_id \in AgentIds, limit \in 0..MaxLimit : get_messages(agent_id, limit)
    \/ start
    \/ stop

SpecStop == Init /\ [][NextStop]_vars

(***************************************************************************)
(* SpecAgent: one BaseAgent.  It is started once and stopped, it is given  *)
(* messages by an agent "a2" that may be registered on the bus, and its    *)
(* loops run.                                                              *)
(***************************************************************************)
\* start() is called on an agent that was not started before.
StartOnce ==
    /\ tasks.message_loops = <<>>
    /\ agent_start

\* stop() is called.
Stop ==
    /\ tasks.stops < MaxStops
    /\ agent_stop

\* Somebody gives the agent a message: a ping, a task with an explicit
\* correlation id, a task whose payload holds a datetime, or a note.
Receive ==
    /\ Received < MaxReceived
    /\ \E e \in { <<"ping", PayloadJson, None>>,
                   <<"task", PayloadJson, Some(0)>>,
                   <<"task", PayloadObject, None>>,
                   <<"note", PayloadJson, None>> } :
          receive_message(IncomingMessage(e[1], e[2], "a2", e[3]))

NextAgent ==
    \/ register_agent("a2")
    \/ StartOnce
    \/ agent_start_return
    \/ Stop
    \/ agent_stop_return
    \/ Receive
    \/ \E i \in 1..Len(tasks.message_loops) : message_loop_begin(i)
    \/ \E i \in 1..Len(tasks.message_loops) : message_loop_timeout(i)
    \/ \E i \in 1..Len(tasks.message_loops) : message_loop_get(i)
    \/ \E i \in 1..Len(tasks.message_loops) : handler_returns(i)
    \/ \E i \in 1..Len(tasks.message_loops) : handler_raises(i)
    \/ \E i \in 1..Len(tasks.heartbeat_loops) : heartbeat_loop_run(i)

SpecAgent == Init /\ [][NextAgent]_vars

(***************************************************************************)
(* SpecLifecycle: one BaseAgent whose start() and stop() are called in any *)
(* order and any overlap, while it is given tasks, which its handler       *)
(* completes, and its loops run.                                           *)
(***************************************************************************)
\* start() is called.
Start ==
    /\ Len(tasks.message_loops) < MaxStarts
    /\ agent_start

\* Somebody gives the agent a task.
ReceiveTask ==
    /\ Received < MaxLifecycleReceived
    /\ receive_message(IncomingMessage("task", PayloadJson, "a2", None))

NextLifecycle ==
    \/ Start
    \/ agent_start_return
    \/ Stop
    \/ agent_stop_return
    \/ ReceiveTask
    \/ \E i \in 1..Len(tasks.message_loops) : message_loop_begin(i)
    \/ \E i \in 1..Len(tasks.message_loops) : message_loop_timeout(i)
    \/ \E i \in 1..Len(tasks.message_loops) : message_loop_get(i)
    \/ \E i \in 1..Len(tasks.message_loops) : handler_returns(i)
    \/ \E i \in 1..Len(tasks.heartbeat_loops) : heartbeat_loop_run(i)

SpecLifecycle == Init /\ [][NextLifecycle]_vars

(***************************************************************************)
(* SpecHealth: the registry while time passes.  Agents are registered and  *)
(* unregistered, subscribe to agent_status, their heartbeats are updated   *)
(* and their health is checked.                                            *)
(***************************************************************************)
NextHealth ==
    \/ \E agent_id \in AgentIds : registry_register_agent(agent_id)
    \/ \E agent_id \in AgentIds : registry_unregister_agent(agent_id)
    \/ \E agent_id \in AgentIds : subscribe(agent_id, "agent_status", FALSE)
    \/ \E agent_id \in AgentIds : update_heartbeat(agent_id)
    \/ check_agent_health({})
    \/ Tick

SpecHealth == Init /\ [][NextHealth]_vars

(***************************************************************************)
(* SpecHeartbeat: the agent next to the registry while time passes.  The   *)
(* agent is registered in the registry, started once and stopped; its      *)
(* loops run, and the registry checks the health of its entries.           *)
(***************************************************************************)
NextHeartbeat ==
    \/ registry_register_agent(AgentId)
    \/ StartOnce
    \/ agent_start_return
    \/ Stop
    \/ agent_stop_return
    \/ \E i \in 1..Len(tasks.message_loops) : message_loop_begin(i)
    \/ \E i \in 1..Len(tasks.message_loops) : message_loop_timeout(i)
    \/ \E i \in 1..Len(tasks.heartbeat_loops) : heartbeat_loop_run(i)
    \/ check_agent_health({})
    \/ Tick

SpecHeartbeat == Init /\ [][NextHeartbeat]_vars

(***************************************************************************)
(* SpecDelivery: the agent on the bus.  The agent is registered on the     *)
(* bus and started once; log_analysis messages are sent to it through the  *)
(* bus, pings are given to it directly, and its loops run.  The tasks of   *)
(* the event loop are scheduled fairly, and a handler that was entered     *)
(* ends.                                                                   *)
(***************************************************************************)
\* A caller sends a log_analysis envelope to the agent through the bus.
SendToAgent ==
    /\ stats.messages_sent < MaxDeliverySends
    /\ send_message(NewEnvelope(Envelope1, AgentId, "log_analysis"), {})

\* Somebody gives the agent a ping.
ReceivePing ==
    /\ Received < MaxReceived
    /\ receive_message(IncomingMessage("ping", PayloadJson, "a2", None))

MessageLoopSteps ==
    \/ \E i \in 1..Len(tasks.message_loops) : message_loop_begin(i)
    \/ \E i \in 1..Len(tasks.message_loops) : message_loop_get(i)

HeartbeatLoopSteps ==
    \E i \in 1..Len(tasks.heartbeat_loops) : heartbeat_loop_run(i)

NextDelivery ==
    \/ register_agent(AgentId)
    \/ SendToAgent
    \/ ReceivePing
    \/ StartOnce
    \/ agent_start_return
    \/ MessageLoopSteps
    \/ HeartbeatLoopSteps

SpecDelivery ==
    /\ Init
    /\ [][NextDelivery]_vars
    /\ WF_vars(agent_start_return)
    /\ WF_vars(MessageLoopSteps)
    /\ WF_vars(HeartbeatLoopSteps)

(***************************************************************************)
(* SpecStartup: one BaseAgent whose initialize() returns or raises.  The   *)
(* agent is started once and stopped, it is given messages, and its loops  *)
(* run.                                                                    *)
(***************************************************************************)
NextStartup ==
    \/ StartOnce
    \/ agent_start_return
    \/ agent_start_raises
    \/ Stop
    \/ agent_stop_return
    \/ Receive
    \/ \E i \in 1..Len(tasks.message_loops) : message_loop_begin(i)
    \/ \E i \in 1..Len(tasks.message_loops) : message_loop_timeout(i)
    \/ \E i \in 1..Len(tasks.message_loops) : message_loop_get(i)
    \/ \E i \in 1..Len(tasks.message_loops) : handler_returns(i)
    \/ \E i \in 1..Len(tasks.heartbeat_loops) : heartbeat_loop_run(i)

SpecStartup == Init /\ [][NextStartup]_vars

(***************************************************************************)
(* SpecMailbox: the mailbox of one BaseAgent.  The agent is given more     *)
(* messages than a mailbox of the bus holds, before and after it is        *)
(* started, and its message loop takes them.                               *)
(***************************************************************************)
\* Somebody gives the agent a ping, a task or a note.
ReceiveMany ==
    /\ Received < MaxMailboxReceived
    /\ \E message_type \in MCPKinds :
          receive_message(IncomingMessage(message_type, PayloadJson, "a2", None))

NextMailbox ==
    \/ ReceiveMany
    \/ StartOnce
    \/ agent_start_return
    \/ \E i \in 1..Len(tasks.message_loops) : message_loop_begin(i)
    \/ \E i \in 1..Len(tasks.message_loops) : message_loop_get(i)
    \/ \E i \in 1..Len(tasks.message_loops) : handler_returns(i)

SpecMailbox == Init /\ [][NextMailbox]_vars

(***************************************************************************)
(* SpecMessages: messages on their own.  Messages of both layers are       *)
(* built, with and without a correlation id and a target; an MCPMessage is *)
(* answered by the agent and the answer is answered in turn; an           *)
(* MCPMessage in the mailbox of the agent is written to a dict and read   *)
(* back, while time passes.                                                *)
(***************************************************************************)
\* The arguments of the MCPMessage constructor that are explored.
MCPMessageKw ==
    [ message_type   : {"ping", "task"},
      payload        : {PayloadJson},
      source         : {"a2"},
      target         : {None, Some(AgentId)},
      correlation_id : {None, Some(0)} ]

\* The arguments of the AgentMessage constructor that are explored.
AgentMessageKw ==
    [ id             : {None},
      sender_id      : {"s1"},
      recipient_id   : AgentIds,
      message_type   : {"log_analysis"},
      data           : {EmptyDict},
      timestamp      : {None},
      correlation_id : {None, Some("c1")} ]

\* MCPMessage(**kw)
new_mcp_message(kw) ==
    /\ next_uuid < MaxMessages
    /\ \E message \in {MCPMessage(kw, next_uuid + 1, now)} :
          last' = [op |-> "MCPMessage", kw |-> kw, message |-> message, root |-> message]
    /\ next_uuid' = next_uuid + 1
    /\ UNCHANGED <<busVars, reg_agents, running, inflight, now, agentVars>>

\* AgentMessage(**kw)
new_agent_message(kw) ==
    /\ next_uuid < MaxMessages
    /\ last' = [op |-> "AgentMessage", kw |-> kw,
                message |-> AgentMessage(kw, next_uuid + 1, now)]
    /\ next_uuid' = next_uuid + 1
    /\ UNCHANGED <<busVars, reg_agents, running, inflight, now, agentVars>>

\* The agent answers the MCPMessage built last: its handler returns the
\* reply of _handle_ping when raises is FALSE, and _process_message builds
\* the error reply when it is TRUE.
reply(raises) ==
    /\ next_uuid < MaxMessages
    /\ last.op \in {"MCPMessage", "reply"}
    /\ last' = [ op      |-> "reply",
                 to      |-> last.message,
                 root    |-> last.root,
                 message |-> IF raises
                             THEN ErrorResponse(last.message, next_uuid + 1, now)
                             ELSE HandlePing(last.message, next_uuid + 1, now) ]
    /\ next_uuid' = next_uuid + 1
    /\ UNCHANGED <<busVars, reg_agents, running, inflight, now, agentVars>>

\* Somebody builds an MCPMessage and gives it to the agent, whose mailbox
\* is empty and keeps it.
ReceiveBuilt ==
    /\ next_uuid < MaxMessages
    /\ agent.message_queue = <<>>
    /\ \E kw \in MCPMessageKw : receive_message(MCPMessage(kw, next_uuid + 1, now))

\* MCPMessage.from_dict(m.to_dict()) for the message m in the mailbox
round_trip ==
    /\ next_uuid < MaxMessages
    /\ agent.message_queue # <<>>
    /\ \E m \in {Head(agent.message_queue)} :
          last' = [ op       |-> "from_dict",
                    original |-> m,
                    data     |-> ToDict(m),
                    message  |-> FromDict(ToDict(m), next_uuid + 1, now) ]
    /\ next_uuid' = next_uuid + 1
    /\ UNCHANGED <<busVars, reg_agents, running, inflight, now, agentVars>>

NextMessages ==
    \/ \E kw \in MCPMessageKw : new_mcp_message(kw)
    \/ \E kw \in AgentMessageKw : new_agent_message(kw)
    \/ \E raises \in BOOLEAN : reply(raises)
    \/ ReceiveBuilt
    \/ round_trip
    \/ Tick

SpecMessages == Init /\ [][NextMessages]_vars

(***************************************************************************)
(* SpecSuspend: synchronous handlers that suspend.  Agents come and go,    *)
(* subscribe to log_analysis with a handler and unsubscribe, also while a  *)
(* send is suspended in a handler; log_analysis messages are sent to the   *)
(* subscribers and to the first agent id.  An agent that has left the      *)
(* subscribers of a suspended broadcast does not subscribe again before    *)
(* the broadcast returns.                                                  *)
(***************************************************************************)
SubscribeHandler(agent_id) ==
    /\ inflight # None => agent_id \notin inflight[1].began
    /\ subscribe(agent_id, "log_analysis", TRUE)

SendSuspending ==
    /\ stats.messages_sent < MaxSuspendSends
    /\ \E recipient_id \in {"broadcast", "a1"}, suspenders \in SUBSET AgentIds :
          send_begin(NewEnvelope(Envelope1, recipient_id, "log_analysis"), suspenders)

NextSuspend ==
    \/ \E agent_id \in AgentIds : register_agent(agent_id)
    \/ \E agent_id \in AgentIds : unregister_agent(agent_id)
    \/ \E agent_id \in AgentIds : SubscribeHandler(agent_id)
    \/ \E agent_id \in AgentIds : unsubscribe(agent_id, "log_analysis")
    \/ SendSuspending
    \/ handler_resume

SpecSuspend == Init /\ [][NextSuspend]_vars

(***************************************************************************)
(* SpecShutdown: one BaseAgent that is started once and stopped while time *)
(* passes.  It is given a task, whose handler suspends and then returns,   *)
(* and its loops run.  The event loop schedules every task that is ready,  *)
(* timers fire, and a handler that was entered returns.  stop() is called  *)
(* while the clock of the model can still advance by one heartbeat sleep.  *)
(***************************************************************************)
StopInTime ==
    /\ now + HeartbeatSleep <= MaxTime
    /\ Stop

MessageLoopRuns ==
    \/ \E i \in 1..Len(tasks.message_loops) : message_loop_begin(i)
    \/ \E i \in 1..Len(tasks.message_loops) : message_loop_timeout(i)
    \/ \E i \in 1..Len(tasks.message_loops) : message_loop_get(i)

HandlerReturns == \E i \in 1..Len(tasks.message_loops) : handler_returns(i)

NextShutdown ==
    \/ StartOnce
    \/ agent_start_return
    \/ StopInTime
    \/ agent_stop_return
    \/ ReceiveTask
    \/ MessageLoopRuns
    \/ HandlerReturns
    \/ HeartbeatLoopSteps
    \/ Tick

SpecShutdown ==
    /\ Init
    /\ [][NextShutdown]_vars
    /\ WF_vars(MessageLoopRuns)
    /\ WF_vars(HandlerReturns)
    /\ WF_vars(HeartbeatLoopSteps)
    /\ WF_vars(Tick)

(***************************************************************************)
(* SpecHistory: the history of the bus while time passes.  The first agent *)
(* is registered and subscribes to log_analysis; envelopes of three ages   *)
(* are sent to the subscribers, to the first agent and to the second,      *)
(* which is not registered.                                                *)
(***************************************************************************)
SendAged ==
    /\ stats.messages_sent < MaxBroadcastSends
    /\ \E e \in {<<Envelope1, "broadcast">>, <<Envelope2, "a1">>, <<Envelope3, "a2">>} :
          send_message(NewEnvelope(e[1], e[2], "log_analysis"), {})

NextHistory ==
    \/ register_agent(AgentId)
    \/ subscribe(AgentId, "log_analysis", FALSE)
    \/ SendAged
    \/ Tick

SpecHistory == Init /\ [][NextHistory]_vars

(***************************************************************************)
(* Vocabulary of the properties.  A step whose new `last` names a call is  *)
(* a step of that call: `last'` holds its arguments and its result, the    *)
(* unprimed variables the state it was made in.                            *)
(***************************************************************************)
IsSend(call) == call.op = "send_message"
IsBroadcast(call) == IsSend(call) /\ call.message.recipient_id \in BroadcastIds
IsDirect(call) == IsSend(call) /\ call.message.recipient_id \notin BroadcastIds

\* The n most recent items of s, oldest first (all of s if it has fewer).
LastN(s, n) == SubSeq(s, Len(s) - Min(n, Len(s)) + 1, Len(s))

\* The ids of a mailbox increase from its front to its back.
IdsIncrease(q) == \A i, j \in 1..Len(q) : i < j => q[i].id < q[j].id

\* The mailbox of agent a is the same before and after the step.
MailboxUntouched(a) ==
    /\ (a \in DOMAIN message_queues') = (a \in DOMAIN message_queues)
    /\ QueueGetItem(message_queues', a) = QueueGetItem(message_queues, a)

(***************************************************************************)
(* C1.  Mailboxes are FIFO.  A point-to-point send to a registered agent   *)
(* whose mailbox is below its capacity puts the message at the back of     *)
(* that mailbox; get_messages(agent, limit) removes and returns the        *)
(* min(limit, size) messages at its front, in mailbox order, and leaves    *)
(* the others in place; for an id without a mailbox it returns the empty   *)
(* list and creates no mailbox.                                            *)
(***************************************************************************)
C1_SendStep ==
    \A r \in AgentIds :
       ( /\ IsDirect(last') /\ last'.message.recipient_id = r
         /\ r \in agents
         /\ Len(QueueGetItem(message_queues, r)) < MaxQueueSize )
       => message_queues'[r] = Append(QueueGetItem(message_queues, r), last'.message)

C1_GetStep ==
    last'.op = "get_messages" =>
       LET a == last'.agent_id IN
       IF a \notin DOMAIN message_queues
       THEN /\ last'.ret = <<>>
            /\ message_queues' = message_queues
       ELSE /\ Len(last'.ret) = Min(last'.limit, Len(message_queues[a]))
            /\ last'.ret \o message_queues'[a] = message_queues[a]
            /\ \A b \in AgentIds \ {a} : MailboxUntouched(b)

C1_Fifo == [][C1_SendStep /\ C1_GetStep]_vars

\* Two messages, sent in this order, come back from one get_messages call.
C1_Witness ==
    /\ last.op = "get_messages"
    /\ Len(last.ret) = 2
    /\ last.ret[1].id < last.ret[2].id
    /\ message_queues[last.agent_id] = <<>>

(***************************************************************************)
(* C2.  A mailbox never holds more than MaxQueueSize messages, and a       *)
(* point-to-point send to a registered agent leaves in its mailbox the     *)
(* MaxQueueSize most recent of the messages it held plus the new one, in   *)
(* send order: a send into a full mailbox evicts the oldest message.       *)
(***************************************************************************)
C2_Bounded ==
    \A a \in DOMAIN message_queues :
       /\ Len(message_queues[a]) <= MaxQueueSize
       /\ IdsIncrease(message_queues[a])

C2_SendStep ==
    \A r \in AgentIds :
       (IsDirect(last') /\ last'.message.recipient_id = r /\ r \in agents)
       => message_queues'[r] =
             LastN(QueueGetItem(message_queues, r) \o <<last'.message>>, MaxQueueSize)

C2_MailboxBound == []C2_Bounded /\ [][C2_SendStep]_vars

\* A send has just evicted the oldest message of a full mailbox.
C2_Witness ==
    /\ IsDirect(last)
    /\ last.full
    /\ Len(message_queues[last.message.recipient_id]) = MaxQueueSize
    /\ message_queues[last.message.recipient_id][MaxQueueSize] = last.message

(***************************************************************************)
(* C3.  A broadcast of kind K enqueues exactly one copy in the mailbox of  *)
(* each registered agent subscribed to K and touches no other mailbox; a   *)
(* copy has the subscriber as recipient, the sender, kind, payload and     *)
(* timestamp of the original, and an id that differs from the original's   *)
(* and from every other copy's.                                            *)
(***************************************************************************)
IsCopyOf(copy, message, a) ==
    /\ copy.recipient_id = a
    /\ copy.sender_id = message.sender_id
    /\ copy.message_type = message.message_type
    /\ copy.data = message.data
    /\ copy.timestamp = message.timestamp
    /\ copy.id # message.id

C3_Step ==
    IsBroadcast(last') =>
       LET message == last'.message
           copies == last'.copies
       IN  /\ \A a \in AgentIds :
                 IF a \in agents /\ InList(subscribers[message.message_type], a)
                 THEN \E copy \in {copies[i] : i \in 1..Len(copies)} :
                         /\ IsCopyOf(copy, message, a)
                         /\ message_queues'[a] =
                               LastN(QueueGetItem(message_queues, a) \o <<copy>>, MaxQueueSize)
                 ELSE MailboxUntouched(a)
           /\ \A i, j \in 1..Len(copies) : i # j => copies[i].id # copies[j].id

C3_BroadcastFanOut == [][C3_Step]_vars

\* A broadcast has just reached two registered subscribers.
C3_Witness ==
    /\ IsBroadcast(last)
    /\ Len(last.copies) = 2
    /\ \A a \in AgentIds :
          /\ a \in agents
          /\ InList(subscribers[last.message.message_type], a)
          /\ \E i \in 1..2 : message_queues[a][Len(message_queues[a])] = last.copies[i]

(***************************************************************************)
(* C4.  Every copy a broadcast makes carries the correlation id of the     *)
(* original message.                                                       *)
(***************************************************************************)
C4_CopiesKeepCorrelationId ==
    [][ IsBroadcast(last') =>
           \A i \in 1..Len(last'.copies) :
              last'.copies[i].correlation_id = last'.message.correlation_id ]_vars

(***************************************************************************)
(* C5.  A send to an agent id that is not registered returns False, adds   *)
(* 1 to messages_sent and to messages_failed, leaves messages_delivered    *)
(* and messages_dropped as they were, and creates no mailbox.              *)
(***************************************************************************)
C5_Step ==
    (IsDirect(last') /\ last'.message.recipient_id \notin agents) =>
       /\ last'.ret = FALSE
       /\ stats' = [stats EXCEPT !.messages_sent = @ + 1, !.messages_failed = @ + 1]
       /\ message_queues' = message_queues

C5_UnknownRecipient == [][C5_Step]_vars

\* A send to an unregistered id has just failed, and the id has no mailbox.
C5_Witness ==
    /\ IsDirect(last)
    /\ last.message.recipient_id \notin agents
    /\ last.ret = FALSE
    /\ last.message.recipient_id \notin DOMAIN message_queues
    /\ stats.messages_failed > 0

(***************************************************************************)
(* C6.  As claimed: messages_sent >= messages_delivered + messages_failed  *)
(* in every state.                                                         *)
(***************************************************************************)
C6_SentIsUpperBound ==
    stats.messages_sent >= stats.messages_delivered + stats.messages_failed

(***************************************************************************)
(* C6, amended.  Every send_message call adds exactly 1 to messages_sent   *)
(* and adds to messages_delivered + messages_failed the number of          *)
(* deliveries it attempts: 1 for a point-to-point send, the number of      *)
(* subscribers of the kind for a broadcast (0 when there are none); no     *)
(* other operation changes the counters.                                   *)
(***************************************************************************)
Attempts(message) ==
    IF message.recipient_id \in BroadcastIds
    THEN Len(subscribers[message.message_type])
    ELSE 1

C6_Step ==
    IF IsSend(last')
    THEN /\ stats'.messages_sent = stats.messages_sent + 1
         /\ stats'.messages_delivered + stats'.messages_failed =
               stats.messages_delivered + stats.messages_failed + Attempts(last'.message)
         /\ stats'.messages_delivered >= stats.messages_delivered
         /\ stats'.messages_failed >= stats.messages_failed
    ELSE stats' = stats

C6_CountersPerAttempt == [][C6_Step]_vars

\* After a broadcast to two subscribers the deliveries outnumber the sends.
C6_Witness ==
    /\ IsBroadcast(last)
    /\ Len(last.copies) = 2
    /\ stats.messages_delivered + stats.messages_failed > stats.messages_sent

(***************************************************************************)
(* C7.  A send to a registered recipient returns True, leaves the message  *)
(* at the back of the recipient's mailbox, adds exactly 1 to               *)
(* messages_delivered and nothing to messages_failed, whether there is no  *)
(* synchronous handler for the (recipient, kind) pair, or it returns, or   *)
(* it raises.                                                              *)
(***************************************************************************)
C7_Step ==
    (IsDirect(last') /\ last'.message.recipient_id \in agents) =>
       LET r == last'.message.recipient_id IN
       /\ last'.ret = TRUE
       /\ r \in DOMAIN message_queues'
       /\ message_queues'[r] # <<>>
       /\ message_queues'[r][Len(message_queues'[r])] = last'.message
       /\ stats' = [stats EXCEPT !.messages_sent = @ + 1, !.messages_delivered = @ + 1]

C7_HandlerFailureIsolated == [][C7_Step]_vars

\* The handler of the last send raised; the send succeeded and the message
\* waits in the mailbox.
C7_Witness ==
    /\ IsDirect(last)
    /\ last.handlers = <<"raised">>
    /\ last.ret = TRUE
    /\ LET q == message_queues[last.message.recipient_id] IN q[Len(q)] = last.message

(***************************************************************************)
(* C8.  A broadcast returns True exactly when every subscriber of the kind *)
(* is a registered agent (so also with no subscriber); whatever it         *)
(* returns, each registered subscriber has its copy at the back of its     *)
(* mailbox and is counted in messages_delivered, and each unregistered     *)
(* subscriber is counted in messages_failed.                               *)
(***************************************************************************)
C8_Step ==
    IsBroadcast(last') =>
       LET message == last'.message
           subs == subscribers[message.message_type]
           accepted == {i \in 1..Len(subs) : subs[i] \in agents}
       IN  /\ last'.ret = (\A i \in 1..Len(subs) : subs[i] \in agents)
           /\ \A i \in accepted :
                 LET q == message_queues'[subs[i]] IN
                 /\ q # <<>>
                 /\ IsCopyOf(q[Len(q)], message, subs[i])
                 /\ \A k \in 1..Len(QueueGetItem(message_queues, subs[i])) :
                       message_queues[subs[i]][k].id # q[Len(q)].id
           /\ stats'.messages_delivered = stats.messages_delivered + Cardinality(accepted)
           /\ stats'.messages_failed =
                 stats.messages_failed + Len(subs) - Cardinality(accepted)

C8_BroadcastResult == [][C8_Step]_vars

\* A broadcast has just failed on its first subscriber and still delivered
\* to its second.
C8_Witness ==
    /\ IsBroadcast(last)
    /\ last.ret = FALSE
    /\ Len(last.copies) = 2
    /\ last.copies[1].recipient_id \notin agents
    /\ last.copies[2].recipient_id \in agents
    /\ LET q == message_queues[last.copies[2].recipient_id] IN q[Len(q)] = last.copies[2]

(***************************************************************************)
(* C9.  After unregister_agent(id), for an id that was registered when it  *)
(* was called, the id is in none of: the agent map, the mailbox map, a     *)
(* subscriber list, the synchronous-handler table.                         *)
(***************************************************************************)
C9_UnregisterPurgesAll ==
    [][ (last'.op = "unregister_agent" /\ last'.agent_id \in agents) =>
           LET id == last'.agent_id IN
           /\ id \notin agents'
           /\ id \notin DOMAIN message_queues'
           /\ \A t \in MessageTypes : ~InList(subscribers'[t], id)
           /\ id \notin DOMAIN message_handlers' ]_vars

(***************************************************************************)
(* C10.  As claimed: in every state an id is known to the registry if and  *)
(* only if it is registered on the bus.                                    *)
(***************************************************************************)
C10_RegistryMatchesBus == DOMAIN reg_agents = agents

(***************************************************************************)
(* C10, amended.  The registry and the bus start with the same (empty)     *)
(* set of ids, and every operation other than a direct call of the bus's   *)
(* own register_agent or unregister_agent keeps the two sets equal.        *)
(***************************************************************************)
DirectBusRegistration(call) == call.op \in {"register_agent", "unregister_agent"}

C10_Step ==
    (~DirectBusRegistration(last') /\ DOMAIN reg_agents = agents)
    => DOMAIN reg_agents' = agents'

C10_RegistryKeepsBusInStep == (DOMAIN reg_agents = agents) /\ [][C10_Step]_vars

\* The registry has just unregistered one of two agents; the other is still
\* known to both.
C10_Witness ==
    /\ last.op = "registry.unregister_agent"
    /\ last.agent_id \notin agents
    /\ agents # {}
    /\ DOMAIN reg_agents = agents

(***************************************************************************)
(* C11.  As claimed: in every state every agent registered on the bus has  *)
(* a mailbox in the mailbox map, and the mailbox map has no mailbox for an *)
(* id that is not registered.                                              *)
(***************************************************************************)
C11_MailboxPerAgent ==
    /\ \A a \in agents : a \in DOMAIN message_queues
    /\ \A a \in DOMAIN message_queues : a \in agents

(***************************************************************************)
(* C11, amended.  In every state the mailbox map has no mailbox for an id  *)
(* that is not registered.  A registered agent has a mailbox only from the *)
(* first delivery to it: register_agent leaves the mailbox map as it is,   *)
(* stop() empties the mailbox map and keeps every registration, and a      *)
(* point-to-point send to a registered agent leaves it with a mailbox.     *)
(***************************************************************************)
C11_Step ==
    /\ last'.op = "register_agent" => DOMAIN message_queues' = DOMAIN message_queues
    /\ last'.op = "stop" => (DOMAIN message_queues' = {} /\ agents' = agents)
    /\ (IsDirect(last') /\ last'.message.recipient_id \in agents)
          => last'.message.recipient_id \in DOMAIN message_queues'

C11_MailboxOnlyIfRegistered ==
    /\ [](\A a \in DOMAIN message_queues : a \in agents)
    /\ [][C11_Step]_vars

\* stop() has just run on a bus that had delivered a message: an agent is
\* registered and the mailbox map is empty.
C11_Witness ==
    /\ last.op = "stop"
    /\ agents # {}
    /\ stats.messages_delivered > 0
    /\ DOMAIN message_queues = {}

(***************************************************************************)
(* Vocabulary of the properties of the agent.                              *)
(***************************************************************************)
\* The step ends one _process_message with this outcome.
IsProcessed(call, outcome) == call.op = "_process_message" /\ call.outcome = outcome

\* Loop task i ends, in this step, the handler call it was suspended in.
LeavesHandler(i) ==
    /\ tasks.message_loops[i].pc = "handling"
    /\ tasks'.message_loops[i].pc # "handling"

(***************************************************************************)
(* C12.  When the handler of a message m raises while _message_loop        *)
(* processes m, the agent passes exactly one message to send_message: its  *)
(* kind is "error", its target is the source of m, its correlation id is   *)
(* that of m, and its payload holds the text of the exception and          *)
(* m.to_dict().  The loop task is not ended by the exception: it is back   *)
(* in the wait for the next message, unless stop() has cleared the running *)
(* flag.                                                                   *)
(***************************************************************************)
C12_Step ==
    IsProcessed(last', "raised") =>
       LET m == last'.message IN
       /\ Len(last'.sent) = 1
       /\ last'.sent[1].message_type = "error"
       /\ last'.sent[1].source = AgentId
       /\ last'.sent[1].target = Some(m.source)
       /\ last'.sent[1].correlation_id = m.correlation_id
       /\ last'.sent[1].payload.error = ExceptionText
       /\ last'.sent[1].payload.original_message = ToDict(m)
       /\ \A i \in 1..Len(tasks.message_loops) :
             LeavesHandler(i) =>
                tasks'.message_loops[i].pc = (IF agent.running THEN "wait" ELSE "exited")

C12_ErrorReply == [][C12_Step]_vars

\* The handler of a task with an explicit correlation id has just raised in
\* a running agent: the loop waits again, and the next message is there.
C12_Witness ==
    /\ IsProcessed(last, "raised")
    /\ last.message.correlation_id # last.message.id
    /\ last.sent[1].correlation_id = last.message.correlation_id
    /\ agent.running
    /\ agent.message_queue # <<>>
    /\ \E i \in 1..Len(tasks.message_loops) : tasks.message_loops[i].pc = "wait"

(***************************************************************************)
(* C13.  Every handler call of the loop that raises adds exactly 1 to      *)
(* self.errors, and a handler call that returns leaves self.errors as it   *)
(* is.                                                                     *)
(***************************************************************************)
C13_ErrorsCountRaises ==
    [][ /\ IsProcessed(last', "raised") => agent'.errors = agent.errors + 1
        /\ IsProcessed(last', "returned") => agent'.errors = agent.errors ]_vars

(***************************************************************************)
(* Vocabulary of the properties of the registry's health check.            *)
(***************************************************************************)
\* The events of a check_agent_health call that name agent id.
EventsNaming(call, id) ==
    {k \in 1..Len(call.events) : <<"agent_id", id>> \in call.events[k].data}

\* An AGENT_STATUS broadcast of the registry that reports id inactive.
IsInactiveEvent(message, id) ==
    /\ message.message_type = "agent_status"
    /\ message.recipient_id = "broadcast"
    /\ message.sender_id = "registry"
    /\ <<"agent_id", id>> \in message.data
    /\ <<"status", "inactive">> \in message.data

(***************************************************************************)
(* C14.  A check_agent_health that finds an entry whose last heartbeat is  *)
(* older than the timeout and that is not yet inactive sets it inactive    *)
(* and publishes exactly one AGENT_STATUS broadcast naming it; a check     *)
(* that finds such an entry already inactive publishes nothing for it and  *)
(* leaves it inactive; each call publishes one message per entry it turns  *)
(* inactive and no other; update_heartbeat sets the entry active.          *)
(***************************************************************************)
C14_Step ==
    /\ last'.op = "check_agent_health" =>
          /\ DOMAIN reg_agents' = DOMAIN reg_agents
          /\ \A id \in DOMAIN reg_agents :
                /\ (TimedOut(reg_agents[id], now) /\ reg_agents[id].status = "active") =>
                      /\ reg_agents'[id].status = "inactive"
                      /\ Cardinality(EventsNaming(last', id)) = 1
                      /\ \A k \in EventsNaming(last', id) :
                            /\ IsInactiveEvent(last'.events[k], id)
                            /\ \E h \in 1..Len(message_history') :
                                  message_history'[h] = last'.events[k]
                /\ (TimedOut(reg_agents[id], now) /\ reg_agents[id].status = "inactive") =>
                      /\ reg_agents'[id].status = "inactive"
                      /\ EventsNaming(last', id) = {}
          /\ stats'.messages_sent = stats.messages_sent + Len(last'.events)
          /\ Len(last'.events) =
                Cardinality({id \in DOMAIN reg_agents :
                                TimedOut(reg_agents[id], now) /\ reg_agents[id].status = "active"})
    /\ (last'.op = "update_heartbeat" /\ last'.agent_id \in DOMAIN reg_agents) =>
          /\ reg_agents'[last'.agent_id].status = "active"
          /\ reg_agents'[last'.agent_id].last_heartbeat = now

C14_InactiveReportedOnce == [][C14_Step]_vars

\* A second health check has found the silent agent already inactive and
\* published nothing: the one event of the first check is all that was
\* sent, and a subscriber holds its copy.
C14_Witness ==
    /\ last.op = "check_agent_health"
    /\ last.events = <<>>
    /\ stats.messages_sent = 1
    /\ \E id \in DOMAIN reg_agents :
          /\ reg_agents[id].status = "inactive"
          /\ TimedOut(reg_agents[id], now)
          /\ \E a \in DOMAIN message_queues :
                \E k \in 1..Len(message_queues[a]) :
                   /\ message_queues[a][k].message_type = "agent_status"
                   /\ <<"agent_id", id>> \in message_queues[a][k].data

(***************************************************************************)
(* C15.  For an id that is registered before and after a step: its status  *)
(* goes from active to inactive only in a check_agent_health made when     *)
(* now - last_heartbeat exceeds the timeout, and from inactive to active   *)
(* only in an update_heartbeat of that id.                                 *)
(***************************************************************************)
C15_StatusTransitions ==
    [][ \A id \in (DOMAIN reg_agents) \cap (DOMAIN reg_agents') :
          /\ (reg_agents[id].status = "active" /\ reg_agents'[id].status = "inactive") =>
                /\ last'.op = "check_agent_health"
                /\ now - reg_agents[id].last_heartbeat > HeartbeatTimeout
          /\ (reg_agents[id].status = "inactive" /\ reg_agents'[id].status = "active") =>
                /\ last'.op = "update_heartbeat"
                /\ last'.agent_id = id ]_vars

(***************************************************************************)
(* C16.  An agent that is registered in the registry, started and running, *)
(* and whose heartbeat loop has emitted a heartbeat within the last 30     *)
(* seconds, is not inactive in the registry: each heartbeat it emits       *)
(* refreshes the last heartbeat of its entry, so no health check finds the *)
(* entry older than the timeout.                                           *)
(***************************************************************************)
C16_HeartbeatingAgentStaysActive ==
    /\ [][ ( /\ last'.op = "_heartbeat_loop"
             /\ last'.sent # <<>>
             /\ AgentId \in DOMAIN reg_agents )
           => reg_agents'[AgentId].last_heartbeat = now ]_vars
    /\ []( ( /\ AgentId \in DOMAIN reg_agents
             /\ agent.running
             /\ agent.status = "online"
             /\ \E i \in 1..Len(tasks.heartbeat_loops) : tasks.heartbeat_loops[i].pc = "sleep"
             /\ now - agent.last_heartbeat <= HeartbeatSleep )
           => reg_agents[AgentId].status = "active" )

(***************************************************************************)
(* C17.  Every message that MessageBus.send_message delivers (it returns   *)
(* True) to the agent, while the agent is registered on the bus, running   *)
(* with its message loop waiting, and has a handler for the kind of the    *)
(* message, is eventually taken by the agent's message loop and given to   *)
(* _process_message.                                                       *)
(***************************************************************************)
\* The ids a message of SpecDelivery can have.
DeliveryIds == 1..(MaxDeliverySends + 2 * MaxReceived + 1)

\* send_message has just delivered message k to the running agent.
Delivered(k) ==
    /\ IsDirect(last)
    /\ last.ret
    /\ last.message.id = k
    /\ last.message.recipient_id = AgentId
    /\ last.message.message_type \in AgentHandlers
    /\ AgentId \in agents
    /\ agent.running
    /\ \E i \in 1..Len(tasks.message_loops) : tasks.message_loops[i].pc = "wait"

\* The message loop has just taken message k and processed it.
Dispatched(k) ==
    /\ last.op = "_process_message"
    /\ last.message.id = k

C17_DeliveredIsDispatched ==
    \A k \in DeliveryIds : [](Delivered(k) => <>Dispatched(k))

(***************************************************************************)
(* C18.  When the agent passes a message m to its send_message (a reply,   *)
(* an error reply or a heartbeat) and the target of m is an agent          *)
(* registered on the bus, then after the call m is in the mailbox the bus  *)
(* keeps for that target.                                                  *)
(***************************************************************************)
\* The messages the agent passed to its send_message in the call.
SentBy(call) ==
    IF call.op \in {"_process_message", "_heartbeat_loop"} THEN call.sent ELSE <<>>

C18_SentReachesMailbox ==
    [][ \A k \in 1..Len(SentBy(last')) :
          LET m == SentBy(last')[k] IN
          (m.target # None /\ m.target[1] \in agents') =>
             \E j \in 1..Len(QueueGetItem(message_queues', m.target[1])) :
                message_queues'[m.target[1]][j].id = m.id ]_vars

(***************************************************************************)
(* C19.  Whatever the interleaving of start() and stop() on the agent, its *)
(* status only moves forward along starting, online, stopping, offline;    *)
(* in particular, once stop() has set it to stopping or offline it never   *)
(* becomes online again.  The first statements of a new call of start()    *)
(* or stop() are left aside: the property is stated for every other step,  *)
(* among them the steps in which a call suspended in initialize() or in    *)
(* cleanup() resumes.                                                      *)
(***************************************************************************)
StatusRank(status) ==
    CASE status = "starting" -> 0
      [] status = "online"   -> 1
      [] status = "stopping" -> 2
      [] status = "offline"  -> 3

C19_StatusMovesForward ==
    [][ last'.op \notin {"agent.start", "agent.stop"} =>
          /\ agent'.status # agent.status =>
                StatusRank(agent'.status) > StatusRank(agent.status)
          /\ agent.status \in {"stopping", "offline"} => agent'.status # "online" ]_vars

(***************************************************************************)
(* C20.  As claimed: whenever the status of the agent is offline, all its  *)
(* message loops and heartbeat loops have exited, and no step taken while  *)
(* the status is offline dispatches a message or emits a heartbeat.        *)
(***************************************************************************)
AllLoopsExited ==
    /\ \A i \in 1..Len(tasks.message_loops) : tasks.message_loops[i].pc = "exited"
    /\ \A i \in 1..Len(tasks.heartbeat_loops) : tasks.heartbeat_loops[i].pc = "exited"

HeartbeatEmitted(call) == call.op = "_heartbeat_loop" /\ call.sent # <<>>

C20_OfflineMeansHalted ==
    /\ [](agent.status = "offline" => AllLoopsExited)
    /\ [][ agent.status = "offline" =>
             (last'.op # "_process_message" /\ ~HeartbeatEmitted(last')) ]_vars

(***************************************************************************)
(* C20, amended.  stop() sets the status to stopping and clears the        *)
(* running flag, awaits cleanup(), and sets the status to offline; it      *)
(* neither waits for the loops nor touches their tasks.  While the running *)
(* flag is clear no heartbeat is emitted and no loop begins an iteration:  *)
(* a task that moves either exits or, if it was waiting for a message,     *)
(* takes the message that arrived.  A message is only taken by a task that *)
(* began its wait while the flag was set.                                  *)
(***************************************************************************)
C20_Step ==
    /\ last'.op = "agent.stop" =>
          /\ agent'.status = "stopping"
          /\ ~agent'.running
          /\ tasks'.message_loops = tasks.message_loops
          /\ tasks'.heartbeat_loops = tasks.heartbeat_loops
    /\ last'.op = "agent.stop.return" =>
          /\ agent'.status = "offline"
          /\ agent'.running = agent.running
          /\ tasks'.message_loops = tasks.message_loops
          /\ tasks'.heartbeat_loops = tasks.heartbeat_loops
    /\ HeartbeatEmitted(last') => agent.running
    /\ last'.op = "_process_message" =>
          \E i \in 1..Len(tasks.message_loops) : tasks.message_loops[i].pc \in {"wait", "handling"}
    /\ \A i \in 1..Len(tasks.message_loops) :
          LET pc == tasks.message_loops[i].pc
              pc1 == tasks'.message_loops[i].pc
          IN  /\ (pc # "wait" /\ pc1 = "wait") => agent.running
              /\ (~agent.running /\ pc1 # pc) =>
                    \/ pc1 = "exited"
                    \/ pc = "wait" /\ pc1 = "handling"
    /\ \A i \in 1..Len(tasks.heartbeat_loops) :
          (~agent.running /\ tasks'.heartbeat_loops[i] # tasks.heartbeat_loops[i]) =>
             tasks'.heartbeat_loops[i].pc = "exited"

C20_LoopsEndAtNextCheck == [][C20_Step]_vars

\* The status is offline, the running flag is clear, and a message loop has
\* just processed a task: it took the message during the wait it was in
\* when stop() ran, and now it has exited.
C20_Witness ==
    /\ agent.status = "offline"
    /\ ~agent.running
    /\ IsProcessed(last, "returned")
    /\ last.message.timestamp >= 0
    /\ agent.tasks_processed = 1
    /\ \A i \in 1..Len(tasks.message_loops) : tasks.message_loops[i].pc = "exited"
    /\ \E i \in 1..Len(tasks.heartbeat_loops) : tasks.heartbeat_loops[i].pc = "sleep"

(***************************************************************************)
(* C21.  When initialize() raises during start(), the agent does not       *)
(* become online and its startup is undone: after the exception has left   *)
(* start() the running flag is false, and from then on, as long as nobody  *)
(* calls start() or stop(), no heartbeat loop of the agent emits a         *)
(* heartbeat.                                                              *)
(***************************************************************************)
\* The last thing that happened to the status of the started agent is a
\* start() whose initialize() raised.
StartupAborted ==
    /\ agent.status = "starting"
    /\ tasks.starts = 0
    /\ tasks.message_loops # <<>>

C21_FailedStartupIsAborted ==
    /\ [][ last'.op = "agent.start.raised" =>
              (agent'.status # "online" /\ ~agent'.running) ]_vars
    /\ [](StartupAborted => ~agent.running)
    /\ [][ StartupAborted => ~HeartbeatEmitted(last') ]_vars

(***************************************************************************)
(* C22.  The agent's own mailbox is bounded by the configured capacity:    *)
(* it never holds more than MaxQueueSize unread messages, and a            *)
(* receive_message on a mailbox that holds that many evicts the oldest     *)
(* unread message and puts the new one at the back.                        *)
(***************************************************************************)
C22_AgentMailboxBounded ==
    /\ [](Len(agent.message_queue) <= MaxQueueSize)
    /\ [][ (last'.op = "receive_message" /\ Len(agent.message_queue) >= MaxQueueSize) =>
              agent'.message_queue = Append(Tail(agent.message_queue), last'.message) ]_vars

(***************************************************************************)
(* C23.  A message built without a correlation id, an MCPMessage or an     *)
(* AgentMessage, reads back a correlation id equal to its own id; and      *)
(* every message in the chain of replies the agent builds for such an      *)
(* MCPMessage (a handler's reply or an error reply, and the replies to     *)
(* those) carries the id of that first message as its correlation id and   *)
(* is addressed to the source of the message it answers.                   *)
(***************************************************************************)
\* The MCPMessage half of the claim: the constructor and the replies.
C23_MCPStep ==
    /\ (last'.op = "MCPMessage" /\ last'.kw.correlation_id = None) =>
          last'.message.correlation_id = last'.message.id
    /\ (last'.op = "reply" /\ last'.root.correlation_id = last'.root.id) =>
          /\ last'.message.correlation_id = last'.root.id
          /\ last'.message.target = Some(last'.to.source)

\* The AgentMessage half of the claim.
C23_AgentMessageStep ==
    (last'.op = "AgentMessage" /\ last'.kw.correlation_id = None) =>
       last'.message.correlation_id = Some(last'.message.id)

C23_CorrelationDefaultsToId == [][C23_MCPStep /\ C23_AgentMessageStep]_vars

(***************************************************************************)
(* C24.  For every MCPMessage m, with or without a target and with the     *)
(* default or an explicit correlation id, from_dict(to_dict(m)) is equal   *)
(* to m in id, kind, payload, source, target, correlation id and           *)
(* timestamp, although from_dict runs the constructor again, later; and    *)
(* to_dict(m) has exactly the keys id, timestamp, type, payload, source,   *)
(* target and correlation_id.                                              *)
(***************************************************************************)
C24_Step ==
    last'.op = "from_dict" =>
       LET m == last'.original
           m2 == last'.message
       IN  /\ m2.id = m.id
           /\ m2.message_type = m.message_type
           /\ m2.payload = m.payload
           /\ m2.source = m.source
           /\ m2.target = m.target
           /\ m2.correlation_id = m.correlation_id
           /\ m2.timestamp = m.timestamp
           /\ DOMAIN last'.data =
                 {"id", "timestamp", "type", "payload", "source", "target", "correlation_id"}
           /\ last'.data.type = m.message_type
           /\ last'.data.id = m.id

C24_RoundTrip == [][C24_Step]_vars

\* A message without a target and with an explicit correlation id has been
\* written and read back 30 seconds or more after it was built, and after
\* another message was built.
C24_Witness ==
    /\ last.op = "from_dict"
    /\ last.original.target = None
    /\ last.original.correlation_id # last.original.id
    /\ last.message = last.original
    /\ now > last.original.timestamp
    /\ next_uuid > last.original.id + 1

(***************************************************************************)
(* Vocabulary of the properties of a send that suspends.                   *)
(***************************************************************************)
\* The call of send_message this step belongs to is a broadcast.
BroadcastCall(call) ==
    /\ call.op \in {"send_message.suspended", "send_message.returned"}
    /\ call.message.recipient_id \in BroadcastIds

\* The mailbox q holds a copy of message made for agent a.
HoldsCopy(q, message, a) == \E k \in 1..Len(q) : IsCopyOf(q[k], message, a)

(***************************************************************************)
(* C25.  While the synchronous handler of one subscriber is suspended in a *)
(* broadcast, the other subscribers of that broadcast are not kept         *)
(* waiting: when the broadcast suspends in the handler of an agent, every  *)
(* other registered subscriber of the kind, the later ones in the list     *)
(* included, has its copy in its mailbox.                                  *)
(***************************************************************************)
C25_SuspendedHandlerBlocksNobody ==
    [][ (inflight = None /\ BroadcastCall(last') /\ inflight' # None) =>
           \A a \in agents :
              InList(subscribers[last'.message.message_type], a) =>
                 HoldsCopy(QueueGetItem(message_queues', a), last'.message, a) ]_vars

(***************************************************************************)
(* C29.  When subscribe, unsubscribe or unregister_agent are called while  *)
(* a broadcast of a kind is suspended in a synchronous handler (by that    *)
(* handler or by another task), every agent that was a registered          *)
(* subscriber of the kind when the broadcast began and still is when it    *)
(* returns, never having left in between, has been made exactly one copy,  *)
(* which is in its mailbox; and the broadcast returns True only if every   *)
(* such agent has its copy.                                                *)
(***************************************************************************)
\* The agents that were registered subscribers for the whole of the
\* broadcast that returns in this step.
Stayed(call) ==
    {a \in call.began : a \in agents /\ InList(subscribers[call.message.message_type], a)}

\* The copies the broadcast made for agent a.
CopiesFor(call, a) == {k \in 1..Len(call.copies) : call.copies[k].recipient_id = a}

C29_Step ==
    (BroadcastCall(last') /\ last'.op = "send_message.returned") =>
       /\ \A a \in Stayed(last') :
             /\ Cardinality(CopiesFor(last', a)) = 1
             /\ HoldsCopy(QueueGetItem(message_queues', a), last'.message, a)
       /\ last'.ret =>
             \A a \in Stayed(last') : Cardinality(CopiesFor(last', a)) >= 1

C29_BroadcastSurvivesChanges == [][C29_Step]_vars

(***************************************************************************)
(* C26.  After stop() is called on a started agent, whose handler in       *)
(* flight (if any) returns, its message loop and its heartbeat loop        *)
(* eventually exit.  While the running flag is clear no loop begins a new  *)
(* iteration: no message loop enters the wait for a message and no         *)
(* heartbeat is emitted.  A message loop that is inside a handler leaves   *)
(* it only when the handler ends, so it does not exit before.              *)
(***************************************************************************)
\* stop() has just been called on an agent whose loops were created.
StopCalled ==
    /\ last.op = "agent.stop"
    /\ tasks.message_loops # <<>>

C26_Step ==
    /\ \A i \in 1..Len(tasks.message_loops) :
          /\ (~agent.running /\ tasks'.message_loops[i].pc = "wait") =>
                tasks.message_loops[i].pc = "wait"
          /\ LeavesHandler(i) =>
                (IsProcessed(last', "returned") \/ IsProcessed(last', "raised"))
    /\ ~agent.running => ~HeartbeatEmitted(last')

C26_LoopsTerminateAfterStop ==
    /\ [](StopCalled => <>AllLoopsExited)
    /\ [][C26_Step]_vars

\* The agent was stopped while its handler was in flight and its heartbeat
\* loop asleep: the handler has returned, time has passed, and both loops
\* have exited.
C26_Witness ==
    /\ tasks.message_loops # <<>>
    /\ AllLoopsExited
    /\ agent.status = "offline"
    /\ ~agent.running
    /\ agent.tasks_processed = 1
    /\ now > agent.last_heartbeat

(***************************************************************************)
(* C27.  After every send_message call the history holds no message whose  *)
(* timestamp is older than now minus the TTL; it is the history before the *)
(* call with the message passed in added at its end, less the entries the  *)
(* purge removed, which are the entries whose timestamp is not later than  *)
(* now minus the TTL; the copies a broadcast makes are not in it; and this *)
(* is so whether the send returns True or False.                           *)
(***************************************************************************)
C27_Step ==
    IsSend(last') =>
       /\ \A k \in 1..Len(message_history') :
             ~(message_history'[k].timestamp < now - MessageTtl)
       /\ message_history' =
             SelectSeq(Append(message_history, last'.message),
                       LAMBDA msg : msg.timestamp > now - MessageTtl)
       /\ \A j \in 1..Len(last'.copies) : ~InList(message_history', last'.copies[j])

C27_HistoryWindow == [][C27_Step]_vars

\* A send has failed, long after an earlier send: the history holds the
\* message that was not delivered and has lost the earlier one.
C27_Witness ==
    /\ IsSend(last)
    /\ last.ret = FALSE
    /\ stats.messages_sent = 2
    /\ now > 0
    /\ message_history = <<last.message>>

(***************************************************************************)
(* C28.  A message the loop takes whose kind has no handler is dropped and *)
(* is not a failure: the agent passes nothing to send_message and builds   *)
(* no message, the bus is left as it is, the error counter is unchanged,   *)
(* the message is gone from the mailbox and the messages behind it stay,   *)
(* and the loop is back in its wait for the next message (or has exited,   *)
(* if stop() has cleared the running flag).                                *)
(***************************************************************************)
C28_Step ==
    IsProcessed(last', "no_handler") =>
       /\ last'.message.message_type \notin AgentHandlers
       /\ last'.sent = <<>>
       /\ next_uuid' = next_uuid
       /\ message_queues' = message_queues
       /\ stats' = stats
       /\ agent'.errors = agent.errors
       /\ agent.message_queue = <<last'.message>> \o agent'.message_queue
       /\ \A i \in 1..Len(tasks.message_loops) :
             tasks.message_loops[i].pc = "wait" =>
                tasks'.message_loops[i].pc = (IF agent.running THEN "wait" ELSE "exited")

C28_NoHandlerIsNoFailure == [][C28_Step]_vars

\* The loop of the running agent has just dropped a note: no error is
\* counted, the loop waits again, and the next message is in the mailbox.
C28_Witness ==
    /\ IsProcessed(last, "no_handler")
    /\ last.message.message_type = "note"
    /\ agent.running
    /\ agent.errors = 0
    /\ agent.message_queue # <<>>
    /\ \E i \in 1..Len(tasks.message_loops) : tasks.message_loops[i].pc = "wait"

(***************************************************************************)
(* C30.  Whatever the sequence of start() and stop() calls on the agent,   *)
(* at most one of its message loops and at most one of its heartbeat loops *)
(* is live at any time (has begun to run and has not exited), so at most   *)
(* one of its handlers is in flight.                                       *)
(***************************************************************************)
LiveMessageLoops ==
    {i \in 1..Len(tasks.message_loops) : tasks.message_loops[i].pc \in {"wait", "handling"}}

LiveHeartbeatLoops ==
    {i \in 1..Len(tasks.heartbeat_loops) : tasks.heartbeat_loops[i].pc = "sleep"}

C30_OneLoopOfEachKind ==
    /\ Cardinality(LiveMessageLoops) <= 1
    /\ Cardinality(LiveHeartbeatLoops) <= 1

====
